---- MODULE Spec2Model ----
(***************************************************************************)
(* Model of the organisational-boundary consolidation engine               *)
(* (backend/app/agents/org_boundary.py, OrgBoundaryAgent.consolidate) and  *)
(* of the document statuses produced by SmartDocumentAgent.parse_files.    *)
(*                                                                         *)
(* Python strings are modelled as sequences of one-character strings, so   *)
(* that strip(), lower(), the regular-expression splits and the sentinel   *)
(* test are computed character by character as the code computes them.     *)
(* None is the one-element sequence <<"None">> and a pandas NaN cell is    *)
(* <<"NaN">>: neither is a sequence of single characters, so they never    *)
(* equal a real string.                                                    *)
(***************************************************************************)
EXTENDS Integers, Sequences, FiniteSets, TLC

\* ---------------------------------------------------------------- bounds
\* Largest number of documents in one input list.
MaxDocs == 3
\* Largest number of rows over all the documents of one input list.
MaxRows == 3
\* Number of distinct values the process's hash() takes on the model's keys.
MaxHash == 2
\* Largest number of rows of the one long sheet of the detail-cap inputs.
MaxSheetRows == 9
MaxCalls == 3
MaxRuns == 2

\* ------------------------------------------------------- program constants
\* Width of the number in a synthesized identifier, "ent-" followed by 10 digits
IdDigits == 10
\* Entries kept in the details of a duplicate_entity_id or duplicate_entity_name issue
DuplicateDetailCap == 5
\* Entries kept in the details of the other roster-level issues
DetailCap == 8

\* ---------------------------------------------------------------- strings
None == <<"None">>
NaN == <<"NaN">>

LOWER == <<"a","b","c","d","e","f","g","h","i","j","k","l","m",
           "n","o","p","q","r","s","t","u","v","w","x","y","z">>
UPPER == <<"A","B","C","D","E","F","G","H","I","J","K","L","M",
           "N","O","P","Q","R","S","T","U","V","W","X","Y","Z">>
DIGITS == <<"0","1","2","3","4","5","6","7","8","9">>

LowerLetters == {LOWER[i] : i \in 1..26}
UpperLetters == {UPPER[i] : i \in 1..26}
DigitChars == {DIGITS[i] : i \in 1..10}
\* Letters outside ASCII that occur in the country table (é, ã, í), and the
\* em dash of EMPTY_SENTINELS, written as named characters.
AccentedLetters == {"e_acute", "a_tilde", "i_acute", "eszett"}
Whitespace == {" ", "TAB"}
\* [a-z0-9] of the regular expressions
LowerAlnum == LowerLetters \cup DigitChars

LowerOf == [c \in UpperLetters |-> LOWER[CHOOSE i \in 1..26 : UPPER[i] = c]]
UpperOf == [c \in LowerLetters |-> UPPER[CHOOSE i \in 1..26 : LOWER[i] = c]]

\* str.lower()
lower(s) == [i \in 1..Len(s) |-> IF s[i] \in UpperLetters THEN LowerOf[s[i]] ELSE s[i]]
\* str.upper(): the sharp s becomes two letters, the other accented letters of
\* the model are left as they are
RECURSIVE upper(_)
upper(s) ==
  IF s = <<>> THEN <<>>
  ELSE (IF Head(s) \in LowerLetters THEN <<UpperOf[Head(s)]>>
        ELSE IF Head(s) = "eszett" THEN <<"S", "S">>
        ELSE <<Head(s)>>) \o upper(Tail(s))

RECURSIVE lstrip_chars(_, _)
lstrip_chars(s, chars) ==
  IF s = <<>> THEN s
  ELSE IF Head(s) \in chars THEN lstrip_chars(Tail(s), chars) ELSE s

RECURSIVE rstrip_chars(_, _)
rstrip_chars(s, chars) ==
  IF s = <<>> THEN s
  ELSE IF s[Len(s)] \in chars THEN rstrip_chars(SubSeq(s, 1, Len(s) - 1), chars) ELSE s

\* str.strip() and str.strip("-")
strip(s) == rstrip_chars(lstrip_chars(s, Whitespace), Whitespace)
strip_dash(s) == rstrip_chars(lstrip_chars(s, {"-"}), {"-"})

\* str.isalpha()
isalpha(s) ==
  /\ s # <<>>
  /\ \A i \in 1..Len(s) : s[i] \in LowerLetters \cup UpperLetters \cup AccentedLetters

\* x in s, for strings
contains(s, x) ==
  \E i \in 0..(Len(s) - Len(x)) : SubSeq(s, i + 1, i + Len(x)) = x

\* [tok for tok in re.split(r"[^a-z0-9]+", s) if tok]
RECURSIVE split_tokens(_, _, _)
split_tokens(s, cur, acc) ==
  IF s = <<>> THEN (IF cur = <<>> THEN acc ELSE Append(acc, cur))
  ELSE IF Head(s) \in LowerAlnum THEN split_tokens(Tail(s), Append(cur, Head(s)), acc)
  ELSE split_tokens(Tail(s), <<>>, IF cur = <<>> THEN acc ELSE Append(acc, cur))

tokens(s) == split_tokens(s, <<>>, <<>>)

\* re.sub(r"[^a-z0-9]+", "-", s)
RECURSIVE sub_non_alnum(_, _)
sub_non_alnum(s, inrun) ==
  IF s = <<>> THEN <<>>
  ELSE IF Head(s) \in LowerAlnum THEN <<Head(s)>> \o sub_non_alnum(Tail(s), FALSE)
  ELSE IF inrun THEN sub_non_alnum(Tail(s), TRUE)
  ELSE <<"-">> \o sub_non_alnum(Tail(s), TRUE)

\* re.sub(r"[^a-z ]", "", s)
keep_letters_spaces(s) == SelectSeq(s, LAMBDA c : c \in LowerLetters \cup {" "})

\* f"{n:010d}" for 0 <= n < 10**10
RECURSIVE digits_of(_, _)
digits_of(n, width) ==
  IF width = 0 THEN <<>>
  ELSE Append(digits_of(n \div 10, width - 1), DIGITS[(n % 10) + 1])

\* Python truthiness of an Optional[str]
truthy(v) == v # None /\ v # <<>>

EMPTY_SENTINELS ==
  {
    <<>>,
    <<"n","a","n">>,
    <<"n","o","n","e">>,
    <<"n","/","a">>,
    <<"n","a">>,
    <<"n",".","a">>,
    <<"n","u","l","l">>,
    <<"-">>,
    <<"EMDASH">>,
    <<"-","-">>,
    <<"t","b","d">>
  }

ID_CANDIDATES ==
  <<
    <<"f","a","c","i","l","i","t","y"," ","i","d">>,
    <<"e","n","t","i","t","y"," ","i","d">>,
    <<"s","i","t","e"," ","i","d">>,
    <<"c","o","m","p","a","n","y"," ","i","d">>,
    <<"o","r","g"," ","i","d">>,
    <<"o","r","g","a","n","i","z","a","t","i","o","n"," ","i","d">>,
    <<"o","r","g","a","n","i","s","a","t","i","o","n"," ","i","d">>,
    <<"l","e","g","a","l"," ","e","n","t","i","t","y"," ","i","d">>,
    <<"l","o","c","a","t","i","o","n"," ","i","d">>,
    <<"i","d","e","n","t","i","f","i","e","r">>,
    <<"i","d">>
  >>

NAME_CANDIDATES ==
  <<
    <<"e","n","t","i","t","y"," ","n","a","m","e">>,
    <<"f","a","c","i","l","i","t","y"," ","n","a","m","e">>,
    <<"s","i","t","e"," ","n","a","m","e">>,
    <<"l","e","g","a","l"," ","e","n","t","i","t","y">>,
    <<"b","u","s","i","n","e","s","s"," ","u","n","i","t">>,
    <<"c","o","m","p","a","n","y"," ","n","a","m","e">>,
    <<"d","i","v","i","s","i","o","n"," ","n","a","m","e">>,
    <<"o","r","g","a","n","i","s","a","t","i","o","n"," ","n","a","m","e">>,
    <<"o","r","g","a","n","i","z","a","t","i","o","n"," ","n","a","m","e">>,
    <<"o","p","e","r","a","t","i","n","g"," ","u","n","i","t">>,
    <<"d","e","p","a","r","t","m","e","n","t">>,
    <<"n","a","m","e">>,
    <<"u","n","i","t">>
  >>

PARENT_ID_CANDIDATES ==
  <<
    <<"p","a","r","e","n","t"," ","i","d">>,
    <<"p","a","r","e","n","t"," ","e","n","t","i","t","y"," ","i","d">>,
    <<"p","a","r","e","n","t"," ","f","a","c","i","l","i","t","y"," ","i","d">>,
    <<"u","l","t","i","m","a","t","e"," ","p","a","r","e","n","t"," ","i","d">>,
    <<"u","p","p","e","r"," ","i","d">>
  >>

PARENT_NAME_CANDIDATES ==
  <<
    <<"p","a","r","e","n","t">>,
    <<"p","a","r","e","n","t"," ","e","n","t","i","t","y">>,
    <<"p","a","r","e","n","t"," ","c","o","m","p","a","n","y">>,
    <<"p","a","r","e","n","t"," ","n","a","m","e">>,
    <<"r","e","p","o","r","t","s"," ","t","o">>,
    <<"r","e","p","o","r","t","s","_","t","o">>,
    <<"h","o","l","d","i","n","g"," ","c","o","m","p","a","n","y">>
  >>

REGION_CANDIDATES ==
  <<
    <<"r","e","g","i","o","n">>,
    <<"g","e","o">>,
    <<"g","e","o","g","r","a","p","h","y">>,
    <<"m","a","r","k","e","t">>,
    <<"a","r","e","a">>,
    <<"c","l","u","s","t","e","r">>
  >>

COUNTRY_CANDIDATES ==
  <<
    <<"c","o","u","n","t","r","y"," ","c","o","d","e">>,
    <<"c","o","u","n","t","r","y">>,
    <<"c","o","u","n","t","r","y","/","m","a","r","k","e","t">>,
    <<"j","u","r","i","s","d","i","c","t","i","o","n">>,
    <<"l","o","c","a","t","i","o","n">>,
    <<"h","q"," ","c","o","u","n","t","r","y">>,
    <<"n","a","t","i","o","n">>
  >>

TYPE_CANDIDATES ==
  <<
    <<"f","a","c","i","l","i","t","y"," ","t","y","p","e">>,
    <<"e","n","t","i","t","y"," ","t","y","p","e">>,
    <<"c","a","t","e","g","o","r","y">>,
    <<"s","i","t","e"," ","t","y","p","e">>,
    <<"b","u","s","i","n","e","s","s"," ","t","y","p","e">>,
    <<"o","r","g"," ","t","y","p","e">>,
    <<"o","p","e","r","a","t","i","n","g"," ","t","y","p","e">>
  >>

BUSINESS_UNIT_CANDIDATES ==
  <<
    <<"b","u","s","i","n","e","s","s"," ","u","n","i","t">>,
    <<"b","u","s","i","n","e","s","s","-","u","n","i","t">>,
    <<"b","u","s","i","n","e","s","s","_","u","n","i","t">>,
    <<"s","e","g","m","e","n","t">>,
    <<"d","i","v","i","s","i","o","n">>,
    <<"l","i","n","e"," ","o","f"," ","b","u","s","i","n","e","s","s">>,
    <<"l","o","b">>
  >>

COUNTRY_NORMALIZATION_MAP ==
  (<<"a","l","b","a","n","i","a">> :> <<"A","L">>)
  @@ (<<"a","l","g","e","r","i","a">> :> <<"D","Z">>)
  @@ (<<"a","r","g","e","n","t","i","n","a">> :> <<"A","R">>)
  @@ (<<"a","r","m","e","n","i","a">> :> <<"A","M">>)
  @@ (<<"a","u","s","t","r","a","l","i","a">> :> <<"A","U">>)
  @@ (<<"a","z","e","r","b","a","i","j","a","n">> :> <<"A","Z">>)
  @@ (<<"b","a","h","a","m","a","s">> :> <<"B","S">>)
  @@ (<<"b","a","n","g","l","a","d","e","s","h">> :> <<"B","D">>)
  @@ (<<"b","a","r","b","a","d","o","s">> :> <<"B","B">>)
  @@ (<<"b","e","l","a","r","u","s">> :> <<"B","Y">>)
  @@ (<<"b","e","l","g","i","u","m">> :> <<"B","E">>)
  @@ (<<"b","e","l","i","z","e">> :> <<"B","Z">>)
  @@ (<<"b","e","n","i","n">> :> <<"B","J">>)
  @@ (<<"b","h","u","t","a","n">> :> <<"B","T">>)
  @@ (<<"b","o","l","i","v","i","a">> :> <<"B","O">>)
  @@ (<<"b","o","s","n","i","a"," ","a","n","d"," ","h","e","r","z","e","g","o","v","i","n","a">> :> <<"B","A">>)
  @@ (<<"b","o","t","s","w","a","n","a">> :> <<"B","W">>)
  @@ (<<"b","r","a","z","i","l">> :> <<"B","R">>)
  @@ (<<"b","r","i","t","i","s","h"," ","i","n","d","i","a","n"," ","o","c","e","a","n"," ","t","e","r","r","i","t","o","r","y"," ","(","c","h","a","g","o","s"," ","a","r","c","h","i","p","e","l","a","g","o",")">> :> <<"I","O">>)
  @@ (<<"b","r","i","t","i","s","h"," ","i","n","d","i","a","n"," ","o","c","e","a","n"," ","t","e","r","r","i","t","o","r","y">> :> <<"I","O">>)
  @@ (<<"b","r","u","n","e","i"," ","d","a","r","u","s","s","a","l","a","m">> :> <<"B","N">>)
  @@ (<<"b","u","l","g","a","r","i","a">> :> <<"B","G">>)
  @@ (<<"b","u","r","u","n","d","i">> :> <<"B","I">>)
  @@ (<<"c","a","m","e","r","o","o","n">> :> <<"C","M">>)
  @@ (<<"c","a","p","e"," ","v","e","r","d","e">> :> <<"C","V">>)
  @@ (<<"c","a","y","m","a","n"," ","i","s","l","a","n","d","s">> :> <<"K","Y">>)
  @@ (<<"c","e","n","t","r","a","l"," ","a","f","r","i","c","a","n"," ","r","e","p","u","b","l","i","c">> :> <<"C","F">>)
  @@ (<<"c","h","a","d">> :> <<"T","D">>)
  @@ (<<"c","h","r","i","s","t","m","a","s"," ","i","s","l","a","n","d">> :> <<"C","X">>)
  @@ (<<"c","o","l","o","m","b","i","a">> :> <<"C","O">>)
  @@ (<<"c","o","m","o","r","o","s">> :> <<"K","M">>)
  @@ (<<"c","o","n","g","o">> :> <<"C","G">>)
  @@ (<<"c","o","s","t","a"," ","r","i","c","a">> :> <<"C","R">>)
  @@ (<<"c","r","o","a","t","i","a">> :> <<"H","R">>)
  @@ (<<"c","y","p","r","u","s">> :> <<"C","Y">>)
  @@ (<<"d","o","m","i","n","i","c","a">> :> <<"D","M">>)
  @@ (<<"d","o","m","i","n","i","c","a","n"," ","r","e","p","u","b","l","i","c">> :> <<"D","O">>)
  @@ (<<"e","c","u","a","d","o","r">> :> <<"E","C">>)
  @@ (<<"e","g","y","p","t">> :> <<"E","G">>)
  @@ (<<"e","l"," ","s","a","l","v","a","d","o","r">> :> <<"S","V">>)
  @@ (<<"e","r","i","t","r","e","a">> :> <<"E","R">>)
  @@ (<<"e","s","t","o","n","i","a">> :> <<"E","E">>)
  @@ (<<"e","t","h","i","o","p","i","a">> :> <<"E","T">>)
  @@ (<<"f","a","r","o","e"," ","i","s","l","a","n","d","s">> :> <<"F","O">>)
  @@ (<<"f","i","j","i">> :> <<"F","J">>)
  @@ (<<"f","i","n","l","a","n","d">> :> <<"F","I">>)
  @@ (<<"f","r","a","n","c","e">> :> <<"F","R">>)
  @@ (<<"f","r","e","n","c","h"," ","g","u","i","a","n","a">> :> <<"G","F">>)
  @@ (<<"f","r","e","n","c","h"," ","p","o","l","y","n","e","s","i","a">> :> <<"P","F">>)
  @@ (<<"g","a","b","o","n">> :> <<"G","A">>)
  @@ (<<"g","i","b","r","a","l","t","a","r">> :> <<"G","I">>)
  @@ (<<"g","r","e","e","n","l","a","n","d">> :> <<"G","L">>)
  @@ (<<"g","r","e","n","a","d","a">> :> <<"G","D">>)
  @@ (<<"g","u","a","d","e","l","o","u","p","e">> :> <<"G","P">>)
  @@ (<<"g","u","a","t","e","m","a","l","a">> :> <<"G","T">>)
  @@ (<<"g","u","i","n","e","a">> :> <<"G","N">>)
  @@ (<<"g","u","y","a","n","a">> :> <<"G","Y">>)
  @@ (<<"h","a","i","t","i">> :> <<"H","T">>)
  @@ (<<"h","o","l","y"," ","s","e","e"," ","(","v","a","t","i","c","a","n"," ","c","i","t","y"," ","s","t","a","t","e",")">> :> <<"V","A">>)
  @@ (<<"h","o","l","y"," ","s","e","e">> :> <<"V","A">>)
  @@ (<<"v","a","t","i","c","a","n"," ","c","i","t","y">> :> <<"V","A">>)
  @@ (<<"h","o","n","d","u","r","a","s">> :> <<"H","N">>)
  @@ (<<"i","n","d","i","a">> :> <<"I","N">>)
  @@ (<<"i","r","e","l","a","n","d">> :> <<"I","E">>)
  @@ (<<"i","s","l","e"," ","o","f"," ","m","a","n">> :> <<"I","M">>)
  @@ (<<"i","t","a","l","y">> :> <<"I","T">>)
  @@ (<<"j","a","m","a","i","c","a">> :> <<"J","M">>)
  @@ (<<"j","a","p","a","n">> :> <<"J","P">>)
  @@ (<<"j","e","r","s","e","y">> :> <<"J","E">>)
  @@ (<<"j","o","r","d","a","n">> :> <<"J","O">>)
  @@ (<<"k","o","r","e","a">> :> <<"K","R">>)
  @@ (<<"k","u","w","a","i","t">> :> <<"K","W">>)
  @@ (<<"k","y","r","g","y","z"," ","r","e","p","u","b","l","i","c">> :> <<"K","G">>)
  @@ (<<"k","y","r","g","y","z","s","t","a","n">> :> <<"K","G">>)
  @@ (<<"l","a","o"," ","p","e","o","p","l","e","'","s"," ","d","e","m","o","c","r","a","t","i","c"," ","r","e","p","u","b","l","i","c">> :> <<"L","A">>)
  @@ (<<"l","a","o","s">> :> <<"L","A">>)
  @@ (<<"l","e","b","a","n","o","n">> :> <<"L","B">>)
  @@ (<<"l","e","s","o","t","h","o">> :> <<"L","S">>)
  @@ (<<"l","i","b","y","a","n"," ","a","r","a","b"," ","j","a","m","a","h","i","r","i","y","a">> :> <<"L","Y">>)
  @@ (<<"l","i","b","y","a">> :> <<"L","Y">>)
  @@ (<<"l","u","x","e","m","b","o","u","r","g">> :> <<"L","U">>)
  @@ (<<"m","a","d","a","g","a","s","c","a","r">> :> <<"M","G">>)
  @@ (<<"m","a","l","a","w","i">> :> <<"M","W">>)
  @@ (<<"m","a","r","s","h","a","l","l"," ","i","s","l","a","n","d","s">> :> <<"M","H">>)
  @@ (<<"m","a","r","t","i","n","i","q","u","e">> :> <<"M","Q">>)
  @@ (<<"m","a","u","r","i","t","i","u","s">> :> <<"M","U">>)
  @@ (<<"m","e","x","i","c","o">> :> <<"M","X">>)
  @@ (<<"m","o","n","a","c","o">> :> <<"M","C">>)
  @@ (<<"m","o","n","g","o","l","i","a">> :> <<"M","N">>)
  @@ (<<"m","o","n","t","s","e","r","r","a","t">> :> <<"M","S">>)
  @@ (<<"m","y","a","n","m","a","r">> :> <<"M","M">>)
  @@ (<<"n","a","m","i","b","i","a">> :> <<"N","A">>)
  @@ (<<"n","i","g","e","r">> :> <<"N","E">>)
  @@ (<<"n","i","g","e","r","i","a">> :> <<"N","G">>)
  @@ (<<"n","o","r","t","h","e","r","n"," ","m","a","r","i","a","n","a"," ","i","s","l","a","n","d","s">> :> <<"M","P">>)
  @@ (<<"n","o","r","w","a","y">> :> <<"N","O">>)
  @@ (<<"o","m","a","n">> :> <<"O","M">>)
  @@ (<<"p","a","k","i","s","t","a","n">> :> <<"P","K">>)
  @@ (<<"p","a","n","a","m","a">> :> <<"P","A">>)
  @@ (<<"p","h","i","l","i","p","p","i","n","e","s">> :> <<"P","H">>)
  @@ (<<"p","o","r","t","u","g","a","l">> :> <<"P","T">>)
  @@ (<<"p","u","e","r","t","o"," ","r","i","c","o">> :> <<"P","R">>)
  @@ (<<"r","e","u","n","i","o","n">> :> <<"R","E">>)
  @@ (<<"r","e_acute","u","n","i","o","n">> :> <<"R","E">>)
  @@ (<<"r","o","m","a","n","i","a">> :> <<"R","O">>)
  @@ (<<"r","u","s","s","i","a","n"," ","f","e","d","e","r","a","t","i","o","n">> :> <<"R","U">>)
  @@ (<<"r","u","s","s","i","a">> :> <<"R","U">>)
  @@ (<<"r","w","a","n","d","a">> :> <<"R","W">>)
  @@ (<<"s","a","i","n","t"," ","b","a","r","t","h","e","l","e","m","y">> :> <<"B","L">>)
  @@ (<<"s","a","i","n","t"," ","b","a","r","t","h","e_acute","l","e","m","y">> :> <<"B","L">>)
  @@ (<<"s","a","i","n","t"," ","h","e","l","e","n","a">> :> <<"S","H">>)
  @@ (<<"s","a","i","n","t"," ","k","i","t","t","s"," ","a","n","d"," ","n","e","v","i","s">> :> <<"K","N">>)
  @@ (<<"s","a","i","n","t"," ","p","i","e","r","r","e"," ","a","n","d"," ","m","i","q","u","e","l","o","n">> :> <<"P","M">>)
  @@ (<<"s","a","m","o","a">> :> <<"W","S">>)
  @@ (<<"s","a","n"," ","m","a","r","i","n","o">> :> <<"S","M">>)
  @@ (<<"s","a","o"," ","t","o","m","e"," ","a","n","d"," ","p","r","i","n","c","i","p","e">> :> <<"S","T">>)
  @@ (<<"s","a_tilde","o"," ","t","o","m","e_acute"," ","a","n","d"," ","p","r","i_acute","n","c","i","p","e">> :> <<"S","T">>)
  @@ (<<"s","a","u","d","i"," ","a","r","a","b","i","a">> :> <<"S","A">>)
  @@ (<<"s","e","n","e","g","a","l">> :> <<"S","N">>)
  @@ (<<"s","e","y","c","h","e","l","l","e","s">> :> <<"S","C">>)
  @@ (<<"s","i","n","g","a","p","o","r","e">> :> <<"S","G">>)
  @@ (<<"s","l","o","v","a","k","i","a"," ","(","s","l","o","v","a","k"," ","r","e","p","u","b","l","i","c",")">> :> <<"S","K">>)
  @@ (<<"s","l","o","v","a","k","i","a">> :> <<"S","K">>)
  @@ (<<"s","l","o","v","e","n","i","a">> :> <<"S","I">>)
  @@ (<<"s","o","m","a","l","i","a">> :> <<"S","O">>)
  @@ (<<"s","v","a","l","b","a","r","d"," ","&"," ","j","a","n"," ","m","a","y","e","n"," ","i","s","l","a","n","d","s">> :> <<"S","J">>)
  @@ (<<"s","v","a","l","b","a","r","d"," ","a","n","d"," ","j","a","n"," ","m","a","y","e","n"," ","i","s","l","a","n","d","s">> :> <<"S","J">>)
  @@ (<<"s","w","a","z","i","l","a","n","d">> :> <<"S","Z">>)
  @@ (<<"e","s","w","a","t","i","n","i">> :> <<"S","Z">>)
  @@ (<<"s","w","e","d","e","n">> :> <<"S","E">>)
  @@ (<<"s","w","i","t","z","e","r","l","a","n","d">> :> <<"C","H">>)
  @@ (<<"s","y","r","i","a","n"," ","a","r","a","b"," ","r","e","p","u","b","l","i","c">> :> <<"S","Y">>)
  @@ (<<"s","y","r","i","a">> :> <<"S","Y">>)
  @@ (<<"t","a","i","w","a","n">> :> <<"T","W">>)
  @@ (<<"t","a","n","z","a","n","i","a">> :> <<"T","Z">>)
  @@ (<<"t","i","m","o","r","-","l","e","s","t","e">> :> <<"T","L">>)
  @@ (<<"e","a","s","t"," ","t","i","m","o","r">> :> <<"T","L">>)
  @@ (<<"t","o","g","o">> :> <<"T","G">>)
  @@ (<<"t","o","k","e","l","a","u">> :> <<"T","K">>)
  @@ (<<"t","u","r","k","e","y">> :> <<"T","R">>)
  @@ (<<"t","u","v","a","l","u">> :> <<"T","V">>)
  @@ (<<"u","g","a","n","d","a">> :> <<"U","G">>)
  @@ (<<"u","n","i","t","e","d"," ","a","r","a","b"," ","e","m","i","r","a","t","e","s">> :> <<"A","E">>)
  @@ (<<"u","a","e">> :> <<"A","E">>)
  @@ (<<"u","n","i","t","e","d"," ","s","t","a","t","e","s"," ","m","i","n","o","r"," ","o","u","t","l","y","i","n","g"," ","i","s","l","a","n","d","s">> :> <<"U","M">>)
  @@ (<<"u","n","i","t","e","d"," ","s","t","a","t","e","s"," ","o","f"," ","a","m","e","r","i","c","a">> :> <<"U","S">>)
  @@ (<<"u","n","i","t","e","d"," ","s","t","a","t","e","s">> :> <<"U","S">>)
  @@ (<<"u","s","a">> :> <<"U","S">>)
  @@ (<<"u","s">> :> <<"U","S">>)
  @@ (<<"u","n","i","t","e","d"," ","k","i","n","g","d","o","m">> :> <<"G","B">>)
  @@ (<<"u","k">> :> <<"G","B">>)
  @@ (<<"g","r","e","a","t"," ","b","r","i","t","a","i","n">> :> <<"G","B">>)
  @@ (<<"v","a","n","u","a","t","u">> :> <<"V","U">>)
  @@ (<<"v","e","n","e","z","u","e","l","a">> :> <<"V","E">>)
  @@ (<<"v","i","e","t","n","a","m">> :> <<"V","N">>)
  @@ (<<"y","e","m","e","n">> :> <<"Y","E">>)
  @@ (<<"z","a","m","b","i","a">> :> <<"Z","M">>)
  @@ (<<"z","i","m","b","a","b","w","e">> :> <<"Z","W">>)
\* ---------------------------------------------------------------- helpers
\* os.path.basename of a path given as its components
basename(path) == IF path = <<>> THEN "" ELSE path[Len(path)]

\* Set of the elements of a sequence
Range(s) == {s[i] : i \in 1..Len(s)}

\* Mutant: the slice keeps the whole list.
Take_uncapped(s, n) == s

\* s[:n]
Take(s, n) == SubSeq(s, 1, IF Len(s) < n THEN Len(s) ELSE n)

\* An insertion-ordered dict whose values are lists (collections.defaultdict(list)):
\* a sequence of [key, values] records in order of first insertion.
dict_has(d, k) == \E i \in 1..Len(d) : d[i].key = k

\* d[k].append(v)
dict_append(d, k, v) ==
  IF dict_has(d, k)
  THEN [i \in 1..Len(d) |-> IF d[i].key = k
                            THEN [key |-> k, values |-> Append(d[i].values, v)]
                            ELSE d[i]]
  ELSE Append(d, [key |-> k, values |-> <<v>>])

RECURSIVE sum_lengths(_)
sum_lengths(d) ==
  IF d = <<>> THEN 0 ELSE Len(Head(d).values) + sum_lengths(Tail(d))

\* ------------------------------------------------- column role detection
\* The token sets of a list of strings, one set per string:
\* set(tok for tok in re.split(r"[^a-z0-9]+", s) if tok)
RECURSIVE token_sets(_)
token_sets(strings) ==
  IF strings = <<>> THEN <<>>
  ELSE <<Range(tokens(Head(strings)))>> \o token_sets(Tail(strings))

\* str(col).strip().lower() for every column
RECURSIVE lowered_stripped(_)
lowered_stripped(columns) ==
  IF columns = <<>> THEN <<>>
  ELSE <<lower(strip(Head(columns)))>> \o lowered_stripped(Tail(columns))

\* The candidate lists, tokenised as line 464 tokenises each candidate
ID_CANDIDATE_TOKENS == token_sets(ID_CANDIDATES)
NAME_CANDIDATE_TOKENS == token_sets(NAME_CANDIDATES)
PARENT_ID_CANDIDATE_TOKENS == token_sets(PARENT_ID_CANDIDATES)
PARENT_NAME_CANDIDATE_TOKENS == token_sets(PARENT_NAME_CANDIDATES)
REGION_CANDIDATE_TOKENS == token_sets(REGION_CANDIDATES)
COUNTRY_CANDIDATE_TOKENS == token_sets(COUNTRY_CANDIDATES)
TYPE_CANDIDATE_TOKENS == token_sets(TYPE_CANDIDATES)

\* The first of a set of positions (0 if there is none): where a loop that
\* returns at its first hit stops
first_index(hits) ==
  IF hits = {} THEN 0 ELSE CHOOSE i \in hits : \A j \in hits : i <= j

\* OrgBoundaryAgent._detect_column on the tokenised candidates; the result is
\* the position of the column in the header (0 for None).
detect_column(columns, candidate_tokens) ==
  LET col_tokens == token_sets(lowered_stripped(columns))
      column_for(c) ==
        first_index({i \in 1..Len(columns) : candidate_tokens[c] \subseteq col_tokens[i]})
      c0 == first_index({c \in 1..Len(candidate_tokens) : column_for(c) # 0})
  IN IF c0 = 0 THEN 0 ELSE column_for(c0)

NAME_PRIORITIES ==
  <<
    << <<"e","n","t","i","t","y">>, <<"n","a","m","e">> >>,
    << <<"f","a","c","i","l","i","t","y">>, <<"n","a","m","e">> >>,
    << <<"s","i","t","e">>, <<"n","a","m","e">> >>,
    << <<"l","e","g","a","l">>, <<"e","n","t","i","t","y">> >>
  >>

RECURSIVE lowered_all(_)
lowered_all(columns) ==
  IF columns = <<>> THEN <<>>
  ELSE <<lower(Head(columns))>> \o lowered_all(Tail(columns))

\* OrgBoundaryAgent._detect_name_column
detect_name_column(columns) ==
  LET lowered == lowered_all(columns)
      column_for(p) ==
        first_index({i \in 1..Len(columns) :
                       \A k \in 1..Len(NAME_PRIORITIES[p]) :
                         contains(lowered[i], NAME_PRIORITIES[p][k])})
      p0 == first_index({p \in 1..Len(NAME_PRIORITIES) : column_for(p) # 0})
  IN IF p0 # 0 THEN column_for(p0)
     ELSE detect_column(columns, NAME_CANDIDATE_TOKENS)

\* The detections of consolidate(), lines 318-324 (the business-unit column of
\* line 325 feeds only display_name, which the model leaves out).
detect_roles(columns) ==
  [ id_col          |-> detect_column(columns, ID_CANDIDATE_TOKENS),
    name_col        |-> detect_name_column(columns),
    parent_id_col   |-> detect_column(columns, PARENT_ID_CANDIDATE_TOKENS),
    parent_name_col |-> detect_column(columns, PARENT_NAME_CANDIDATE_TOKENS),
    region_col      |-> detect_column(columns, REGION_CANDIDATE_TOKENS),
    country_col     |-> detect_column(columns, COUNTRY_CANDIDATE_TOKENS),
    type_col        |-> detect_column(columns, TYPE_CANDIDATE_TOKENS) ]

NoRoles ==
  [ id_col |-> 0, name_col |-> 0, parent_id_col |-> 0, parent_name_col |-> 0,
    region_col |-> 0, country_col |-> 0, type_col |-> 0 ]

\* ---------------------------------------------------------- row extraction
\* Mutant: the text is compared with the sentinels as written (no lower()).
fetch_value_case_sensitive(row, column) ==
  IF column = 0 \/ column > Len(row) THEN None
  ELSE IF row[column] = NaN THEN None
  ELSE LET text == strip(row[column])
       IN IF text \in EMPTY_SENTINELS THEN None ELSE text

\* OrgBoundaryAgent._fetch_value; a row is the sequence of its cells in
\* header order and column is a position in the header (0 for None).
fetch_value(row, column) ==
  IF column = 0 \/ column > Len(row) THEN None
  ELSE IF row[column] = NaN THEN None
  ELSE LET text == strip(row[column])
       IN IF lower(text) \in EMPTY_SENTINELS THEN None ELSE text

\* The name normalisation of _make_entity_id
normalized_name(name) == strip_dash(sub_non_alnum(lower(strip(name)), FALSE))

\* The argument of hash() in _make_entity_id
hash_key(name) == <<normalized_name(name), Len(name)>>

ENT_PREFIX == <<"e","n","t","-">>

\* Mutant: the synthesized identifier is the bare number.
make_entity_id_without_prefix(h) == digits_of(h, IdDigits)

\* OrgBoundaryAgent._make_entity_id, given the value h of
\* abs(hash((normalized, len(name)))) % 10**10 in this process
make_entity_id(h) == ENT_PREFIX \o digits_of(h, IdDigits)

TYPE_TERMS_MANUFACTURING ==
  { <<"m","a","n","u","f","a","c","t","u","r","i","n","g">>,
    <<"p","l","a","n","t">>,
    <<"f","a","c","t","o","r","y">> }
TYPE_TERMS_OFFICE ==
  { <<"o","f","f","i","c","e">>,
    <<"h","q">>,
    <<"h","e","a","d","q","u","a","r","t","e","r","s">> }
TYPE_TERM_DISTRIBUTION == <<"d","i","s","t","r","i","b","u","t","i","o","n">>

\* OrgBoundaryAgent._infer_type_from_name
infer_type_from_name(name) ==
  LET lowered == lower(name)
  IN IF \E term \in TYPE_TERMS_MANUFACTURING : contains(lowered, term)
       THEN <<"M","a","n","u","f","a","c","t","u","r","i","n","g">>
     ELSE IF \E term \in TYPE_TERMS_OFFICE : contains(lowered, term)
       THEN <<"O","f","f","i","c","e">>
     ELSE IF contains(lowered, TYPE_TERM_DISTRIBUTION)
       THEN <<"D","i","s","t","r","i","b","u","t","i","o","n">>
     ELSE None

\* OrgBoundaryAgent._normalize_country: <<iso code or None, unmapped raw or None>>
normalize_country(value) ==
  IF ~truthy(value) THEN <<None, None>>
  ELSE LET val == strip(value)
           val_lower == lower(val)
           cleaned == strip(keep_letters_spaces(val_lower))
       IN IF val = <<>> THEN <<None, None>>
          ELSE IF Len(val) = 2 /\ isalpha(val) THEN <<upper(val), None>>
          ELSE IF val_lower \in DOMAIN COUNTRY_NORMALIZATION_MAP
            THEN <<COUNTRY_NORMALIZATION_MAP[val_lower], None>>
          ELSE IF cleaned \in DOMAIN COUNTRY_NORMALIZATION_MAP
            THEN <<COUNTRY_NORMALIZATION_MAP[cleaned], None>>
          ELSE <<None, val>>

\* ------------------------------------------------------------------ issues
\* OrgBoundaryAgent._make_issue. A key the code leaves out of the dict is
\* None, "" (file, sheet, recommendation), 0 (row) or <<>> (details) here.
\* The number a message states is kept apart from its text, in count.
make_issue(code, message, count, severity, entity, field, source_file, source_sheet, source_row, recommendation, details) ==
  [ code |-> code, message |-> message, count |-> count, severity |-> severity,
    entity |-> IF truthy(entity) THEN entity ELSE None,
    field |-> field,
    source_file |-> source_file,
    source_sheet |-> source_sheet,
    source_row |-> source_row,
    recommendation |-> recommendation,
    details |-> details ]

\* ------------------------------------------------------- parsed documents
NoDataframe == [is_none |-> TRUE, columns |-> <<>>, rows |-> <<>>]
Dataframe(columns, rows) == [is_none |-> FALSE, columns |-> columns, rows |-> rows]

\* pandas DataFrame.empty: some axis has length 0
df_empty(df) == Len(df.columns) = 0 \/ Len(df.rows) = 0

\* SmartDocumentAgent.parse_files, one sheet of a workbook that could be read:
\* the entry appended for the cleaned sheet.
parse_sheet(path, sheet_name, cleaned) ==
  LET status == IF ~df_empty(cleaned) THEN "ok" ELSE "empty"
  IN [ path |-> path, status |-> status, dataframe |-> cleaned,
       sheet_name |-> sheet_name,
       error |-> IF status # "ok"
                 THEN <<"Sheet contained no tabular data after cleaning">>
                 ELSE None ]

\* SmartDocumentAgent.parse_files, a file that could not be read
parse_failure(path) ==
  [ path |-> path, status |-> "error", dataframe |-> NoDataframe,
    sheet_name |-> "",
    error |-> <<"Could not read Excel file">> ]

\* SmartDocumentAgent.parse_files, a file with an unsupported extension
parse_skipped(path) ==
  [ path |-> path, status |-> "skipped", dataframe |-> NoDataframe,
    sheet_name |-> "", error |-> None ]

\* A document handed to consolidate() by a caller other than parse_files:
\* status ok with whatever dataframe the caller supplies (none, or an empty one).
caller_doc(path, sheet_name, df) ==
  [ path |-> path, status |-> "ok", dataframe |-> df,
    sheet_name |-> sheet_name, error |-> None ]

\* ------------------------------------------------------------------- state
VARIABLES
  parsed_docs,         \* the argument of consolidate()
  pyhash,              \* this process's hash(), reduced mod 10**10, on the keys of the input
  pc,                  \* position in consolidate()
  doc_i,               \* the document the loop of line 292 is at
  row_i,               \* the row the loop of line 338 is at
  cols,                \* the role columns detected for the current document
  entities,            \* consolidate() locals, lines 282-290
  issues,
  duplicate_ids,
  duplicate_names,
  missing_identifiers,
  non_iso_countries,
  unknown_countries,
  missing_regions,
  missing_types,
  entities_list,       \* list(deduped.values()), line 406
  boundary,
  hierarchy_edges,
  result,              \* the dict returned, or None before the return
  waiting,             \* the arguments of the other calls suspended at line 280
  returned,            \* the calls on this agent that have returned, oldest first
  session,             \* the SessionState of one session id in AgentOrchestrator._sessions
  tasks                \* the run_workflow tasks started for that session id

vars ==
  << parsed_docs, pyhash, pc, doc_i, row_i, cols, entities, issues,
     duplicate_ids, duplicate_names, missing_identifiers, non_iso_countries,
     unknown_countries, missing_regions, missing_types, entities_list,
     boundary, hierarchy_edges, result, waiting, returned, session, tasks >>

accumulators ==
  << entities, duplicate_ids, duplicate_names, missing_identifiers,
     non_iso_countries, unknown_countries, missing_regions, missing_types >>

later_stages == << entities_list, boundary, hierarchy_edges, result >>

\* sheet = doc.get("sheet_name") or "Sheet1"
sheet_of(doc) == IF doc.sheet_name = "" THEN "Sheet1" ELSE doc.sheet_name

\* ------------------------------------------------------------ consolidate
\* Mutant: the issues list belongs to the agent and is not made anew per call.
Start_keeps_issues ==
  /\ pc = "sleep"
  /\ entities' = <<>>
  /\ duplicate_ids' = <<>>
  /\ duplicate_names' = <<>>
  /\ missing_identifiers' = <<>>
  /\ non_iso_countries' = <<>>
  /\ unknown_countries' = <<>>
  /\ missing_regions' = <<>>
  /\ missing_types' = <<>>
  /\ pc' = IF parsed_docs = <<>> THEN "dedup" ELSE "docs"
  /\ doc_i' = 1
  /\ UNCHANGED << parsed_docs, pyhash, waiting, returned, session, tasks, row_i, cols, issues, later_stages >>

\* The await of line 280 returns and the locals of lines 282-290 are made.
Start ==
  /\ pc = "sleep"
  /\ entities' = <<>>
  /\ issues' = <<>>
  /\ duplicate_ids' = <<>>
  /\ duplicate_names' = <<>>
  /\ missing_identifiers' = <<>>
  /\ non_iso_countries' = <<>>
  /\ unknown_countries' = <<>>
  /\ missing_regions' = <<>>
  /\ missing_types' = <<>>
  /\ pc' = IF parsed_docs = <<>> THEN "dedup" ELSE "docs"
  /\ doc_i' = 1
  /\ UNCHANGED << parsed_docs, pyhash, waiting, returned, session, tasks, row_i, cols, later_stages >>

\* Where the document loop goes after document d
after_doc(d) == IF d >= Len(parsed_docs) THEN "dedup" ELSE "docs"

\* Mutant: a document that is reported ends the loop (break for continue).
continue_after_breaks(d) == "dedup"

\* The continue of lines 305, 316 and 336, after document d was reported
continue_after(d) == after_doc(d)

\* The rows of a document are read: none of the tests of lines 296, 308 and
\* 327 sends the loop on to the next document.
document_usable(doc) ==
  /\ doc.status = "ok"
  /\ ~doc.dataframe.is_none
  /\ ~df_empty(doc.dataframe)
  /\ detect_name_column(doc.dataframe.columns) # 0

\* The issue a document whose rows are not read is reported with (lines 296-336)
document_issue(doc) ==
  LET file == basename(doc.path)
      sheet == sheet_of(doc)
      df == doc.dataframe
  IN IF doc.status # "ok"
       THEN make_issue("input_unusable",
                       IF truthy(doc.error) THEN doc.error ELSE <<"Input could not be parsed">>,
                       0, "error", None, "", file, sheet, 0,
                       "Re-export the sheet with a single header row and no merged cells", <<>>)
     ELSE IF df.is_none \/ df_empty(df)
       THEN make_issue("empty_sheet", <<"contained no tabular data">>,
                       0, "warning", None, "", file, sheet, 0, "", <<>>)
     ELSE make_issue("missing_name_column", <<"Could not detect an entity name column">>,
                     0, "error", None, "", file, sheet, 0,
                     "Add a column such as 'Facility Name' or 'Entity Name'", <<>>)

\* One iteration of the loop of line 292 up to the row loop: the document is
\* reported and skipped, or its role columns are detected.
NextDoc ==
  /\ pc = "docs"
  /\ LET doc == parsed_docs[doc_i]
     IN IF ~document_usable(doc)
        THEN /\ issues' = Append(issues, document_issue(doc))
             /\ doc_i' = doc_i + 1
             /\ pc' = continue_after(doc_i)
             /\ UNCHANGED << row_i, cols >>
        ELSE /\ cols' = detect_roles(doc.dataframe.columns)
             /\ row_i' = 1
             /\ pc' = "rows"
             /\ UNCHANGED << issues, doc_i >>
  /\ UNCHANGED << parsed_docs, pyhash, waiting, returned, session, tasks, accumulators, later_stages >>

\* The record of lines 343-387 for a row whose name is entity_name
entity_record(doc, roles, row, idx, entity_name) ==
  LET entity_identifier == fetch_value(row, roles.id_col)
      entity_type == fetch_value(row, roles.type_col)
      country_raw == fetch_value(row, roles.country_col)
  IN [ entity_id |-> IF truthy(entity_identifier) THEN entity_identifier
                     ELSE make_entity_id(pyhash[hash_key(entity_name)]),
       entity_identifier |-> entity_identifier,
       name |-> entity_name,
       region |-> fetch_value(row, roles.region_col),
       country_raw |-> country_raw,
       country_code |-> normalize_country(country_raw)[1],
       facility_type |-> IF truthy(entity_type) THEN entity_type
                         ELSE infer_type_from_name(entity_name),
       parent_id |-> fetch_value(row, roles.parent_id_col),
       parent_name |-> fetch_value(row, roles.parent_name_col),
       source_file |-> basename(doc.path),
       source_sheet |-> sheet_of(doc),
       source_row |-> idx + 2,
       confidence |-> IF truthy(entity_identifier) THEN 92 ELSE 85,
       is_user_verified |-> FALSE ]

\* Mutant: the raw value is compared with the code as written (no upper()).
verbose_country_case_sensitive(country_code, country_raw) ==
  truthy(country_code) /\ truthy(country_raw) /\ country_raw # country_code

\* The test of line 356: the value was mapped and is not the code itself
verbose_country(country_code, country_raw) ==
  truthy(country_code) /\ truthy(country_raw) /\ upper(country_raw) # country_code

\* One iteration of the row loop of line 338 (idx is the row's index label,
\* 0-based after parse_files resets the index).
NextRow ==
  /\ pc = "rows"
  /\ LET doc == parsed_docs[doc_i]
         rows == doc.dataframe.rows
         row == rows[row_i]
         idx == row_i - 1
         entity_name == fetch_value(row, cols.name_col)
         record == entity_record(doc, cols, row, idx, entity_name)
         unmapped_country == normalize_country(record.country_raw)[2]
     IN /\ IF ~truthy(entity_name)
           THEN UNCHANGED accumulators
           ELSE /\ entities' = Append(entities, record)
                /\ unknown_countries' =
                     IF truthy(unmapped_country)
                     THEN dict_append(unknown_countries, unmapped_country, entity_name)
                     ELSE unknown_countries
                /\ non_iso_countries' =
                     IF ~truthy(unmapped_country)
                        /\ verbose_country(record.country_code, record.country_raw)
                     THEN dict_append(non_iso_countries, record.country_raw, entity_name)
                     ELSE non_iso_countries
                /\ missing_regions' =
                     IF ~truthy(record.region) THEN Append(missing_regions, entity_name)
                     ELSE missing_regions
                /\ missing_types' =
                     IF ~truthy(record.facility_type) THEN Append(missing_types, entity_name)
                     ELSE missing_types
                /\ missing_identifiers' =
                     IF ~truthy(record.entity_identifier)
                     THEN Append(missing_identifiers, <<entity_name, idx + 2>>)
                     ELSE missing_identifiers
                /\ UNCHANGED << duplicate_ids, duplicate_names >>
        /\ IF row_i < Len(rows)
           THEN /\ row_i' = row_i + 1
                /\ UNCHANGED << pc, doc_i >>
           ELSE /\ doc_i' = doc_i + 1
                /\ pc' = after_doc(doc_i)
                /\ UNCHANGED row_i
  /\ UNCHANGED << parsed_docs, pyhash, waiting, returned, session, tasks, cols, issues, later_stages >>

\* Mutant: the key is the identifier as written (no lower-casing).
dedup_key_case_sensitive(entity_id) == strip(entity_id)

\* key = entity["entity_id"].strip().lower(), line 392
dedup_key(entity_id) == lower(strip(entity_id))

\* Mutant: last seen wins (deduped[key] = entity is assigned before the test).
RECURSIVE dedup_loop_last_wins(_, _, _)
dedup_loop_last_wins(ents, deduped, dups) ==
  IF ents = <<>> THEN [deduped |-> deduped, duplicate_ids |-> dups]
  ELSE LET entity == Head(ents)
           key == dedup_key(entity.entity_id)
       IN IF \E j \in 1..Len(deduped) : deduped[j].key = key
          THEN dedup_loop_last_wins(Tail(ents),
                 [j \in 1..Len(deduped) |->
                    IF deduped[j].key = key THEN [key |-> key, entity |-> entity]
                    ELSE deduped[j]],
                 dict_append(dups, entity.entity_id, entity.source_file))
          ELSE dedup_loop_last_wins(Tail(ents),
                 Append(deduped, [key |-> key, entity |-> entity]), dups)

\* Mutant: a collision of synthesized identifiers is merged without a record
\* in duplicate_ids.
RECURSIVE dedup_loop_silent_merge(_, _, _)
dedup_loop_silent_merge(ents, deduped, dups) ==
  IF ents = <<>> THEN [deduped |-> deduped, duplicate_ids |-> dups]
  ELSE LET entity == Head(ents)
           key == dedup_key(entity.entity_id)
       IN IF \E j \in 1..Len(deduped) : deduped[j].key = key
          THEN dedup_loop_silent_merge(Tail(ents), deduped,
                 IF truthy(entity.entity_identifier)
                 THEN dict_append(dups, entity.entity_id, entity.source_file)
                 ELSE dups)
          ELSE dedup_loop_silent_merge(Tail(ents),
                 Append(deduped, [key |-> key, entity |-> entity]), dups)

\* The loop of lines 390-396 over ents, from the deduped entities and the
\* duplicate_ids found so far.
RECURSIVE dedup_loop(_, _, _)
dedup_loop(ents, deduped, dups) ==
  IF ents = <<>> THEN [deduped |-> deduped, duplicate_ids |-> dups]
  ELSE LET entity == Head(ents)
           key == dedup_key(entity.entity_id)
       IN IF \E j \in 1..Len(deduped) : deduped[j].key = key
          THEN dedup_loop(Tail(ents), deduped,
                          dict_append(dups, entity.entity_id, entity.source_file))
          ELSE dedup_loop(Tail(ents), Append(deduped, [key |-> key, entity |-> entity]), dups)

\* Lines 390-396 and 406: the first pass, by identifier.
Dedup ==
  /\ pc = "dedup"
  /\ LET r == dedup_loop(entities, <<>>, duplicate_ids)
     IN /\ entities_list' = [j \in 1..Len(r.deduped) |-> r.deduped[j].entity]
        /\ duplicate_ids' = r.duplicate_ids
  /\ pc' = "names"
  /\ UNCHANGED << parsed_docs, pyhash, waiting, returned, session, tasks, doc_i, row_i, cols, entities, issues,
                  duplicate_names, missing_identifiers, non_iso_countries,
                  unknown_countries, missing_regions, missing_types,
                  boundary, hierarchy_edges, result >>

\* name_key = entity["name"].strip().lower(), line 400
name_key(name) == lower(strip(name))

\* The loop of lines 398-404 over ents: by_name holds the keys seen.
RECURSIVE name_loop(_, _, _)
name_loop(ents, by_name, dups) ==
  IF ents = <<>> THEN dups
  ELSE LET entity == Head(ents)
           key == name_key(entity.name)
       IN IF key \in by_name
          THEN name_loop(Tail(ents), by_name,
                         dict_append(dups, entity.name, entity.source_file))
          ELSE name_loop(Tail(ents), by_name \cup {key}, dups)

\* Mutant: the second pass keeps only the first survivor of each name.
NamePass_drops_repeated_names ==
  /\ pc = "names"
  /\ duplicate_names' = name_loop(entities_list, {}, duplicate_names)
  /\ LET firsts == {j \in 1..Len(entities_list) :
                      \A i \in 1..(j - 1) :
                        name_key(entities_list[i].name) # name_key(entities_list[j].name)}
         nth(k) == CHOOSE j \in firsts : Cardinality({i \in firsts : i < j}) = k - 1
     IN entities_list' = [k \in 1..Cardinality(firsts) |-> entities_list[nth(k)]]
  /\ pc' = "boundary"
  /\ UNCHANGED << parsed_docs, pyhash, waiting, returned, session, tasks, doc_i, row_i, cols, entities, issues,
                  duplicate_ids, missing_identifiers, non_iso_countries,
                  unknown_countries, missing_regions, missing_types,
                  boundary, hierarchy_edges, result >>

\* Lines 398-404: the second pass, by name, over the survivors.
NamePass ==
  /\ pc = "names"
  /\ duplicate_names' = name_loop(entities_list, {}, duplicate_names)
  /\ pc' = "boundary"
  /\ UNCHANGED << parsed_docs, pyhash, waiting, returned, session, tasks, doc_i, row_i, cols, entities, issues,
                  duplicate_ids, missing_identifiers, non_iso_countries,
                  unknown_countries, missing_regions, missing_types,
                  later_stages >>

\* ------------------------------------------------- hierarchy and boundary
\* Mutant: a parent_id that matches nothing falls back to the parent_name.
parent_missing_with_fallback(entity, ents) ==
  LET by_id == {ents[j].entity_id : j \in 1..Len(ents)}
      by_name == {lower(strip(ents[j].name)) : j \in 1..Len(ents)}
  IN IF truthy(entity.parent_id) /\ entity.parent_id \in by_id THEN FALSE
     ELSE IF truthy(entity.parent_name) THEN lower(strip(entity.parent_name)) \notin by_name
     ELSE truthy(entity.parent_id)

\* parent_missing of lines 561-566, for one entity against the roster ents
parent_missing(entity, ents) ==
  LET by_id == {ents[j].entity_id : j \in 1..Len(ents)}
      by_name == {lower(strip(ents[j].name)) : j \in 1..Len(ents)}
  IN IF truthy(entity.parent_id) THEN entity.parent_id \notin by_id
     ELSE IF truthy(entity.parent_name) THEN lower(strip(entity.parent_name)) \notin by_name
     ELSE FALSE

\* The missing_parent issue of lines 569-580
missing_parent_issue(entity) ==
  make_issue("missing_parent", <<"Parent reference could not be matched">>, 0,
             "warning", entity.name, "parent", entity.source_file,
             entity.source_sheet, entity.source_row,
             "Provide a matching parent row or confirm the entity is standalone",
             << IF truthy(entity.parent_id) THEN entity.parent_id ELSE entity.parent_name >>)

\* The boundary record of lines 582-591
boundary_record(entity) ==
  [ entity_id |-> entity.entity_id,
    name |-> entity.name,
    in_boundary |-> TRUE,
    reason |-> "Included by default; refine with control & ownership inputs",
    parent_id |-> entity.parent_id,
    parent_name |-> entity.parent_name,
    country_code |-> entity.country_code,
    region |-> entity.region ]

\* Mutant: the relationship is decided by the parent_id alone.
hierarchy_edge_by_parent_id(entity) ==
  [ entity_id |-> entity.entity_id,
    parent_id |-> entity.parent_id,
    parent_name |-> entity.parent_name,
    relationship |-> IF truthy(entity.parent_id) THEN "reports_to" ELSE "root" ]

\* The edge of lines 593-598
hierarchy_edge(entity) ==
  [ entity_id |-> entity.entity_id,
    parent_id |-> entity.parent_id,
    parent_name |-> entity.parent_name,
    relationship |-> IF truthy(entity.parent_id) \/ truthy(entity.parent_name)
                     THEN "reports_to" ELSE "root" ]

\* The issues of _propose_boundary over the entities from position j on
RECURSIVE hierarchy_issues(_, _)
hierarchy_issues(ents, j) ==
  IF j > Len(ents) THEN <<>>
  ELSE (IF parent_missing(ents[j], ents) THEN <<missing_parent_issue(ents[j])>> ELSE <<>>)
       \o hierarchy_issues(ents, j + 1)

\* Mutant: an entity whose parent is missing is reported and then left out of
\* the boundary (a continue after the issue is appended).
propose_boundary_drops_orphans(ents) ==
  LET kept == SelectSeq(ents, LAMBDA e : ~parent_missing(e, ents))
  IN [ boundary |-> [j \in 1..Len(kept) |-> boundary_record(kept[j])],
       issues |-> hierarchy_issues(ents, 1),
       edges |-> [j \in 1..Len(ents) |-> hierarchy_edge(ents[j])] ]

\* OrgBoundaryAgent._propose_boundary
propose_boundary(ents) ==
  [ boundary |-> [j \in 1..Len(ents) |-> boundary_record(ents[j])],
    issues |-> hierarchy_issues(ents, 1),
    edges |-> [j \in 1..Len(ents) |-> hierarchy_edge(ents[j])] ]

\* Mutant: the hierarchy issues are put in front of the issues found so far.
ProposeBoundary_issues_first ==
  /\ pc = "boundary"
  /\ LET r == propose_boundary(entities_list)
     IN /\ boundary' = r.boundary
        /\ hierarchy_edges' = r.edges
        /\ issues' = r.issues \o issues
  /\ pc' = "compile"
  /\ UNCHANGED << parsed_docs, pyhash, waiting, returned, session, tasks, doc_i, row_i, cols, accumulators,
                  entities_list, result >>

\* Lines 407-408
ProposeBoundary ==
  /\ pc = "boundary"
  /\ LET r == propose_boundary(entities_list)
     IN /\ boundary' = r.boundary
        /\ hierarchy_edges' = r.edges
        /\ issues' = issues \o r.issues
  /\ pc' = "compile"
  /\ UNCHANGED << parsed_docs, pyhash, waiting, returned, session, tasks, doc_i, row_i, cols, accumulators,
                  entities_list, result >>

\* ------------------------------------------------------------ issue compiler
\* f"{key}: {sorted(set(files))}" for the first n entries of a dict: the key
\* with the set of its files
dict_details(d, n) ==
  [i \in 1..Len(Take(d, n)) |-> <<d[i].key, Range(d[i].values)>>]

dict_keys(d) == [i \in 1..Len(d) |-> d[i].key]

\* OrgBoundaryAgent._compile_quality_issues
compile_quality_issues(dup_ids, dup_names, missing_ids, unknown, non_iso, no_regions, no_types) ==
  (IF dup_ids # <<>>
   THEN << make_issue("duplicate_entity_id",
             <<"Detected duplicate entity identifiers across uploads">>, Len(dup_ids),
             "warning", None, "", "", "", 0,
             "Ensure each facility or legal entity has a unique identifier before aggregation",
             dict_details(dup_ids, DuplicateDetailCap)) >>
   ELSE <<>>)
  \o
  (IF dup_names # <<>>
   THEN << make_issue("duplicate_entity_name",
             <<"entity names are repeated across files">>, Len(dup_names),
             "info", None, "", "", "", 0,
             "Clarify whether repeated names represent distinct sites or duplicate entries",
             dict_details(dup_names, DuplicateDetailCap)) >>
   ELSE <<>>)
  \o
  (IF missing_ids # <<>>
   THEN << make_issue("missing_entity_identifier",
             <<"rows are missing an explicit facility/entity identifier">>, Len(missing_ids),
             "warning", None, "", "", "", 0,
             "Provide a stable ID column (e.g., Facility ID) to support traceability",
             Take(missing_ids, DetailCap)) >>
   ELSE <<>>)
  \o
  (IF unknown # <<>>
   THEN << make_issue("country_normalization",
             <<"facilities use country values that could not be mapped to ISO-3166">>,
             sum_lengths(unknown),
             "warning", None, "", "", "", 0,
             "Standardize country inputs (e.g., use ISO alpha-2 codes or consistent names)",
             Take(dict_keys(unknown), DetailCap)) >>
   ELSE <<>>)
  \o
  (IF non_iso # <<>>
   THEN << make_issue("country_standardization",
             <<"facilities use verbose country labels; ISO-2 equivalents inferred">>,
             sum_lengths(non_iso),
             "info", None, "", "", "", 0,
             "Store ISO-2 country codes alongside descriptive labels to prevent downstream ambiguity",
             Take(dict_keys(non_iso), DetailCap)) >>
   ELSE <<>>)
  \o
  (IF no_regions # <<>>
   THEN << make_issue("missing_region",
             <<"facilities have no region assigned">>, Len(no_regions),
             "info", None, "", "", "", 0,
             "Populate regional groupings (e.g., AMER, EMEA) to support roll-ups",
             Take(no_regions, DetailCap)) >>
   ELSE <<>>)
  \o
  (IF no_types # <<>>
   THEN << make_issue("missing_facility_type",
             <<"facilities are missing facility type information">>, Len(no_types),
             "info", None, "", "", "", 0,
             "Provide facility type (Manufacturing, Distribution, Office, etc.) for boundary governance",
             Take(no_types, DetailCap)) >>
   ELSE <<>>)

\* Mutant: the region and facility-type findings are taken from the survivors
\* of the deduplication instead of the lists kept while the rows were read.
CompileQualityIssues_over_survivors ==
  /\ pc = "compile"
  /\ LET lacking(field_set(_)) ==
           LET kept == SelectSeq(entities_list, LAMBDA e : ~field_set(e))
           IN [j \in 1..Len(kept) |-> kept[j].name]
     IN issues' = issues \o compile_quality_issues(duplicate_ids, duplicate_names,
                            missing_identifiers, unknown_countries, non_iso_countries,
                            lacking(LAMBDA e : truthy(e.region)),
                            lacking(LAMBDA e : truthy(e.facility_type)))
  /\ pc' = "report"
  /\ UNCHANGED << parsed_docs, pyhash, waiting, returned, session, tasks, doc_i, row_i, cols, accumulators, later_stages >>

\* Lines 410-418
CompileQualityIssues ==
  /\ pc = "compile"
  /\ issues' = issues \o compile_quality_issues(duplicate_ids, duplicate_names,
                            missing_identifiers, unknown_countries,
                            non_iso_countries, missing_regions, missing_types)
  /\ pc' = "report"
  /\ UNCHANGED << parsed_docs, pyhash, waiting, returned, session, tasks, doc_i, row_i, cols, accumulators, later_stages >>

\* ------------------------------------------------ narrative, recommendations
count_severity(iss, severity) ==
  Cardinality({i \in 1..Len(iss) : iss[i].severity = severity})

\* Mutant: the informational notes are not counted.
generate_narrative_without_infos(ents, iss) ==
  IF ents = <<>>
  THEN [ text |-> "No entities could be consolidated from the supplied documents.",
         entities |-> 0, countries |-> 0, regions |-> 0,
         errors |-> 0, warnings |-> 0, infos |-> 0 ]
  ELSE [ text |-> "Consolidated {n} unique entities ...",
         entities |-> Len(ents),
         countries |-> Cardinality({ents[j].country_code : j \in 1..Len(ents)} \ {None, <<>>}),
         regions |-> Cardinality({ents[j].region : j \in 1..Len(ents)} \ {None, <<>>}),
         errors |-> count_severity(iss, "error"),
         warnings |-> count_severity(iss, "warning"),
         infos |-> 0 ]

\* OrgBoundaryAgent._generate_narrative: the sentence chosen and the numbers
\* it states (the facility-mix sentence is left out).
generate_narrative(ents, iss) ==
  IF ents = <<>>
  THEN [ text |-> "No entities could be consolidated from the supplied documents.",
         entities |-> 0, countries |-> 0, regions |-> 0,
         errors |-> 0, warnings |-> 0, infos |-> 0 ]
  ELSE [ text |-> "Consolidated {n} unique entities ...",
         entities |-> Len(ents),
         countries |-> Cardinality({ents[j].country_code : j \in 1..Len(ents)} \ {None, <<>>}),
         regions |-> Cardinality({ents[j].region : j \in 1..Len(ents)} \ {None, <<>>}),
         errors |-> count_severity(iss, "error"),
         warnings |-> count_severity(iss, "warning"),
         infos |-> count_severity(iss, "info") ]

BASE_RECOMMENDATIONS ==
  << "Provide ownership percentages and control type (financial vs operational) per entity",
     "Confirm reporting currency, consolidation method, and excluded entities with rationale",
     "Publish ISO-2 country codes alongside descriptive labels to unblock downstream analytics",
     "Upload latest legal entity register and org charts to improve hierarchical accuracy" >>

\* Mutant: the advice on duplicates is keyed on repeated names.
generate_recommendations_by_repeated_names(iss) ==
  LET issue_codes == {iss[i].code : i \in 1..Len(iss)}
  IN BASE_RECOMMENDATIONS
     \o (IF "missing_entity_identifier" \in issue_codes
         THEN <<"Introduce a stable Facility ID/Legal Entity ID column for every record before final boundary sign-off">>
         ELSE <<>>)
     \o (IF "duplicate_entity_name" \in issue_codes
         THEN <<"Resolve duplicate identifiers to avoid double counting and misattribution in carbon ledgers">>
         ELSE <<>>)
     \o (IF "missing_parent" \in issue_codes
         THEN <<"Review missing parent links and confirm whether affected entities are standalone or require hierarchy updates">>
         ELSE <<>>)
     \o (IF "missing_region" \in issue_codes
         THEN <<"Populate a standard region field (e.g., AMER/EMEA/APAC) for aggregated sustainability reporting">>
         ELSE <<>>)

\* OrgBoundaryAgent._generate_recommendations
generate_recommendations(iss) ==
  LET issue_codes == {iss[i].code : i \in 1..Len(iss)}
  IN BASE_RECOMMENDATIONS
     \o (IF "missing_entity_identifier" \in issue_codes
         THEN <<"Introduce a stable Facility ID/Legal Entity ID column for every record before final boundary sign-off">>
         ELSE <<>>)
     \o (IF "duplicate_entity_id" \in issue_codes
         THEN <<"Resolve duplicate identifiers to avoid double counting and misattribution in carbon ledgers">>
         ELSE <<>>)
     \o (IF "missing_parent" \in issue_codes
         THEN <<"Review missing parent links and confirm whether affected entities are standalone or require hierarchy updates">>
         ELSE <<>>)
     \o (IF "missing_region" \in issue_codes
         THEN <<"Populate a standard region field (e.g., AMER/EMEA/APAC) for aggregated sustainability reporting">>
         ELSE <<>>)

\* Lines 441-457: the dict returned (the export dataframes are projections of
\* the four lists and are left out).
Return ==
  /\ pc = "report"
  /\ result' = [ entities |-> entities_list,
                 boundary |-> boundary,
                 hierarchy |-> hierarchy_edges,
                 narrative |-> generate_narrative(entities_list, issues),
                 recommendations |-> generate_recommendations(issues),
                 issues |-> issues ]
  /\ pc' = "done"
  /\ UNCHANGED << parsed_docs, pyhash, waiting, returned, session, tasks, doc_i, row_i, cols, issues, accumulators,
                  entities_list, boundary, hierarchy_edges >>

Next ==
  \/ Start
  \/ NextDoc
  \/ NextRow
  \/ Dedup
  \/ NamePass
  \/ ProposeBoundary
  \/ CompileQualityIssues
  \/ Return

\* ----------------------------------------------------------------- inputs
\* Column headers of the input sheets
H_ID == <<"I","D">>
H_NAME == <<"N","a","m","e">>
H_PARENT == <<"P","a","r","e","n","t">>
H_PARENT_ID == <<"P","a","r","e","n","t"," ","I","D">>
H_REGION == <<"R","e","g","i","o","n">>
H_COUNTRY == <<"C","o","u","n","t","r","y">>
H_CATEGORY == <<"C","a","t","e","g","o","r","y">>

\* Files of the input, one per position in the list
FILES == <<"f1.csv", "f2.csv", "f3.csv", "f4.csv", "f5.csv">>
path_of(i) == <<"uploads", FILES[i]>>

\* A header in which no name column is detected
NO_NAME_COLUMNS == <<H_ID, H_REGION>>

\* A document shape: what parse_files (or another caller) made of file i
\*   rows     a sheet with the header and the rows given
\*   no_name  a sheet with the rows given under NO_NAME_COLUMNS
\*   error    a file that could not be read
\*   skipped  a file with an unsupported extension
\*   empty    a sheet that is empty after cleaning
\*   ok_none  a caller's ok document without a dataframe
\*   ok_empty a caller's ok document with a dataframe without rows
document(kind, i, columns, rows) ==
  CASE kind = "rows"     -> parse_sheet(path_of(i), "CSV", Dataframe(columns, rows))
    [] kind = "no_name"  -> parse_sheet(path_of(i), "CSV", Dataframe(NO_NAME_COLUMNS, rows))
    [] kind = "error"    -> parse_failure(path_of(i))
    [] kind = "skipped"  -> parse_skipped(path_of(i))
    [] kind = "empty"    -> parse_sheet(path_of(i), "CSV", Dataframe(<<>>, <<>>))
    [] kind = "ok_none"  -> caller_doc(path_of(i), "", NoDataframe)
    [] kind = "ok_empty" -> caller_doc(path_of(i), "Data", Dataframe(columns, <<>>))

ROW_KINDS == {"rows", "no_name"}

RECURSIVE sum_to(_, _)
sum_to(cnt, n) == IF n = 0 THEN 0 ELSE cnt[n] + sum_to(cnt, n - 1)

\* How many rows each of n documents of kinds ks holds: the documents with
\* rows hold at least one each and at most MaxRows together.
row_counts(ks, n) ==
  { c \in [1..n -> 0..MaxRows] :
      /\ sum_to(c, n) <= MaxRows
      /\ \A i \in 1..n : (c[i] > 0) = (ks[i] \in ROW_KINDS) }

\* The input list of n documents of kinds ks, the rows dealt out in order
input_list(ks, n, cnt, columns, rows) ==
  [i \in 1..n |-> document(ks[i], i, columns,
                           SubSeq(rows, sum_to(cnt, i - 1) + 1, sum_to(cnt, i)))]

\* The names consolidate() hashes on an input: the rows with a name and without an identifier
hashed_names(docs) ==
  UNION { LET df == docs[i].dataframe
              roles == detect_roles(df.columns)
          IN IF docs[i].status # "ok" \/ df.is_none \/ df_empty(df) \/ roles.name_col = 0
             THEN {}
             ELSE { fetch_value(df.rows[r], roles.name_col) :
                      r \in { q \in 1..Len(df.rows) :
                                /\ truthy(fetch_value(df.rows[q], roles.name_col))
                                /\ ~truthy(fetch_value(df.rows[q], roles.id_col)) } }
        : i \in 1..Len(docs) }

\* The values hash() may take in this process on the keys the input needs
hash_functions(docs) ==
  LET keys == {hash_key(n) : n \in hashed_names(docs)}
  IN [keys -> 0..(MaxHash - 1)]

NoResult ==
  [ entities |-> <<>>, boundary |-> <<>>, hierarchy |-> <<>>,
    narrative |-> [text |-> "", entities |-> 0, countries |-> 0, regions |-> 0,
                   errors |-> 0, warnings |-> 0, infos |-> 0],
    recommendations |-> <<>>, issues |-> <<>> ]

\* SessionState(session_id): the defaults of the dataclass (orchestrator.py)
NoResults == [is_none |-> TRUE, num_entities |-> 0, num_issues |-> 0, num_hierarchy_links |-> 0]

\* state.steps, a list, is kept as its last element and the set of the elements
\* before it: the workflow appends to the list, clears it and updates its last
\* element, and nothing reads the order of the others.
NoSteps == [earlier |-> {}, last |-> <<>>]

NoSession ==
  [ status |-> "idle", progress |-> 0, steps |-> NoSteps, results |-> NoResults, errors |-> <<>> ]

\* consolidate(docs) has been called in a process whose hash() is h
Called(docs, h) ==
  /\ parsed_docs = docs
  /\ pyhash = h
  /\ pc = "sleep"
  /\ doc_i = 0
  /\ row_i = 0
  /\ cols = NoRoles
  /\ entities = <<>>
  /\ issues = <<>>
  /\ duplicate_ids = <<>>
  /\ duplicate_names = <<>>
  /\ missing_identifiers = <<>>
  /\ non_iso_countries = <<>>
  /\ unknown_countries = <<>>
  /\ missing_regions = <<>>
  /\ missing_types = <<>>
  /\ entities_list = <<>>
  /\ boundary = <<>>
  /\ hierarchy_edges = <<>>
  /\ result = NoResult
  /\ waiting = <<>>
  /\ returned = <<>>
  /\ session = NoSession
  /\ tasks = <<>>

\* consolidate() has been called on an input list of a family: up to MaxDocs
\* documents of the kinds given, the documents with rows holding, together, up
\* to MaxRows rows drawn from row_values.
CalledOn(kinds, columns, row_values) ==
  \E n \in 0..MaxDocs :
    \E ks \in [1..n -> kinds] :
      \E cnt \in row_counts(ks, n) :
        \E rows \in [1..sum_to(cnt, n) -> row_values] :
          LET docs == input_list(ks, n, cnt, columns, rows)
          IN \E h \in hash_functions(docs) : Called(docs, h)

\* Cells of the input sheets
ID_x == <<"x">>
ID_X == <<"X"," ">>
ID_y == <<"y">>
NAME_a == <<"a">>
NAME_A == <<" ","A">>
NAME_b == <<"b">>
NAME_c == <<"c">>
NAME_NA == <<" ","N","/","a">>
REGION_r == <<"r">>
COUNTRY_usa == <<"u","s","a">>
COUNTRY_q == <<"q","9">>
COUNTRY_UK == <<"U","K">>
COUNTRY_uk == <<"u","k">>
COUNTRY_U_K == <<"U",".","K",".">>
COUNTRY_USA == <<"U","S","A">>
COUNTRY_U_S_A == <<"U",".","S",".","A",".">>
COUNTRY_sz == <<"eszett","a">>

\* Rosters with identifiers throughout, identifiers and names differing in case
ExplicitIdRows == { <<id, name>> : id \in {ID_x, ID_X, ID_y}, name \in {NAME_a, NAME_A} }
\* Rosters in which rows lack an identifier
MissingIdRows == { <<id, name>> : id \in {NaN, ID_x}, name \in {NAME_a, NAME_A, NAME_b} }

InitDedup ==
  \/ CalledOn({"rows"}, <<H_ID, H_NAME>>, ExplicitIdRows)
  \/ CalledOn({"rows"}, <<H_ID, H_NAME>>, MissingIdRows)

SpecDedup == InitDedup /\ [][Next]_vars

\* Rosters with parent references: none, by identifier, by name, and by an
\* identifier in another case beside a name
ParentRefs ==
  { <<NaN, NaN>>, <<NaN, ID_x>>, <<NAME_A, NaN>>, <<NAME_a, ID_X>> }
ParentRows ==
  { <<e[1], e[2], p[1], p[2]>> : e \in { <<ID_x, NAME_a>>, <<ID_y, NAME_b>> }, p \in ParentRefs }

InitParent == CalledOn({"rows"}, <<H_ID, H_NAME, H_PARENT, H_PARENT_ID>>, ParentRows)

SpecParent == InitParent /\ [][Next]_vars

\* Input lists with documents of every kind
DocumentRows == { <<ID_x, NAME_a>>, <<ID_y, NAME_b>> }
InitDocuments ==
  CalledOn({"rows", "no_name", "error", "empty", "ok_none", "ok_empty"},
           <<H_ID, H_NAME>>, DocumentRows)

SpecDocuments == InitDocuments /\ [][Next]_vars

\* Sheets with rows to skip: the name cell is NaN or a sentinel while the
\* other cells are filled or not
QualityRows ==
  { <<name, q[1], q[2]>> :
      name \in {NAME_a, NAME_NA}, q \in { <<NaN, COUNTRY_q>>, <<REGION_r, COUNTRY_usa>> } }
  \cup { <<NaN, NaN, COUNTRY_q>> }
InitQuality == CalledOn({"rows"}, <<H_NAME, H_REGION, H_COUNTRY>>, QualityRows)

SpecQuality == InitQuality /\ [][Next]_vars

\* Rosters that raise issues of every group: a clean root with a verbose
\* country; a row with the identifier of the first, an unmatched parent, no
\* region and an unknown country; a row without identifier, region and country
IssueRows ==
  { <<ID_x, NAME_a, NaN, REGION_r, COUNTRY_usa>>,
    <<ID_x, NAME_b, NAME_c, NaN, COUNTRY_q>>,
    <<NaN, NAME_a, NaN, NaN, NaN>> }
InitIssues ==
  CalledOn({"rows", "no_name", "error"},
           <<H_ID, H_NAME, H_PARENT, H_REGION, H_COUNTRY>>, IssueRows)

SpecIssues == InitIssues /\ [][Next]_vars

\* Rosters whose country cells are case and punctuation variants of two
\* countries, two letters of which one is a sharp s, an unknown value and an
\* empty cell
CountryCells ==
  { COUNTRY_UK, COUNTRY_uk, COUNTRY_U_K, COUNTRY_USA, COUNTRY_U_S_A, COUNTRY_sz,
    COUNTRY_q, NaN }
CountryRows == { <<ID_x, NAME_a, c>> : c \in CountryCells }
InitCountry == CalledOn({"rows"}, <<H_ID, H_NAME, H_COUNTRY>>, CountryRows)

SpecCountry == InitCountry /\ [][Next]_vars

\* One long sheet: the identifiers of rows 3k+1, 3k+2, 3k+3 are a letter in
\* upper, lower and upper case, so that two of every three rows repeat a key
\* under an identifier of their own; a row either has a region and no parent
\* or has no region and a parent that matches nothing.
SHEET_LETTERS == <<"x", "y", "z", "w">>
sheet_id(k) ==
  LET letter == SHEET_LETTERS[((k - 1) \div 3) + 1]
  IN IF (k - 1) % 3 = 1 THEN <<letter>> ELSE <<UpperOf[letter]>>
sheet_row(k, orphan) ==
  IF orphan THEN <<sheet_id(k), NAME_a, NAME_c, NaN>>
  ELSE <<sheet_id(k), NAME_a, NaN, REGION_r>>
InitLongSheet ==
  \E n \in 0..MaxSheetRows :
    \E orphans \in [1..n -> BOOLEAN] :
      LET rows == [k \in 1..n |-> sheet_row(k, orphans[k])]
          docs == IF n = 0 THEN <<>>
                  ELSE <<document("rows", 1, <<H_ID, H_NAME, H_PARENT, H_REGION>>, rows)>>
      IN \E h \in hash_functions(docs) : Called(docs, h)

SpecLongSheet == InitLongSheet /\ [][Next]_vars

\* Sheets with an identifier column and a parent identifier column, in the two
\* orders of the header; a row is identifier, name, parent identifier
ColumnRows ==
  { <<e[1], e[2], p>> : e \in { <<ID_x, NAME_a>>, <<ID_y, NAME_b>> }, p \in {NaN, ID_x, ID_y} }

InitColumns ==
  \/ CalledOn({"rows"}, <<H_ID, H_NAME, H_PARENT_ID>>, ColumnRows)
  \/ CalledOn({"rows"}, <<H_PARENT_ID, H_NAME, H_ID>>,
              { <<r[3], r[2], r[1]>> : r \in ColumnRows })

SpecColumns == InitColumns /\ [][Next]_vars

\* Rosters without identifiers whose names differ in punctuation only, beside
\* a third name
NAME_a_dash_b == <<"a","-","b">>
NAME_a_space_b == <<"a"," ","b">>

InitNames ==
  CalledOn({"rows"}, <<H_ID, H_NAME>>,
           { <<NaN, name>> : name \in {NAME_a_dash_b, NAME_a_space_b, NAME_a} })

SpecNames == InitNames /\ [][Next]_vars

\* ------------------------------------------------- calls on one agent
\* consolidate() is a coroutine whose only await is the sleep of line 280: a
\* call made on the agent is suspended there, and from the locals of line 282
\* to its return it runs without yielding to the event loop. The state above is
\* the frame of the call the loop resumes next; waiting holds the arguments of
\* the other calls suspended at line 280.
CALL_COLUMNS == <<H_ID, H_NAME, H_PARENT, H_REGION>>

\* Input lists of the calls: none, a sheet with a repeated identifier, an
\* unreadable file followed by a sheet with a row without identifier
CallInputs ==
  { <<>>,
    << document("rows", 1, CALL_COLUMNS,
                << <<ID_x, NAME_a, NaN, REGION_r>>, <<ID_x, NAME_b, NAME_c, NaN>> >>) >>,
    << document("error", 1, CALL_COLUMNS, <<>>),
       document("rows", 2, CALL_COLUMNS,
                << <<NaN, NAME_a, NaN, NaN>>, <<ID_x, NAME_a, ID_y, REGION_r>> >>) >> }

\* The values hash() may take in this process on the keys the calls need
call_hash_functions ==
  [UNION { {hash_key(n) : n \in hashed_names(docs)} : docs \in CallInputs } -> 0..(MaxHash - 1)]

\* The first call on a new agent is suspended at line 280
InitCalls == \E docs \in CallInputs : \E h \in call_hash_functions : Called(docs, h)

call_frame == << pc, doc_i, row_i, cols, issues, accumulators, later_stages >>

\* Another coroutine calls consolidate(other) on the same agent and is suspended
\* at line 280: while this call sleeps, or after every call made has returned.
OtherCall ==
  /\ pc = "sleep" \/ (pc = "done" /\ waiting = <<>>)
  /\ Len(waiting) + Len(returned) + 1 < MaxCalls
  /\ \E other \in CallInputs : waiting' = Append(waiting, other)
  /\ UNCHANGED << parsed_docs, pyhash, returned, call_frame, session, tasks >>

\* The event loop resumes another of the calls suspended at line 280 first.
Switch ==
  /\ pc = "sleep"
  /\ \E k \in 1..Len(waiting) :
       /\ parsed_docs' = waiting[k]
       /\ waiting' = [waiting EXCEPT ![k] = parsed_docs]
  /\ UNCHANGED << pyhash, returned, call_frame, session, tasks >>

\* The call has returned (line 444) and the event loop turns to one of the
\* suspended calls; what the agent held stays as the call left it.
Resume ==
  /\ pc = "done"
  /\ returned' = Append(returned, [docs |-> parsed_docs, result |-> result])
  /\ \E k \in 1..Len(waiting) :
       /\ parsed_docs' = waiting[k]
       /\ waiting' = [j \in 1..(Len(waiting) - 1) |-> IF j < k THEN waiting[j] ELSE waiting[j + 1]]
  /\ pc' = "sleep"
  /\ result' = NoResult
  /\ UNCHANGED << pyhash, doc_i, row_i, cols, issues, accumulators,
                  entities_list, boundary, hierarchy_edges, session, tasks >>

NextCalls ==
  \/ Next
  \/ OtherCall
  \/ Switch
  \/ Resume

SpecCalls == InitCalls /\ [][NextCalls]_vars

\* ------------------------------------------- AgentOrchestrator.run_workflow
\* Each process request creates a task that runs run_workflow on the session's
\* SessionState. A task runs from one await to the next without yielding; the
\* consolidate() call of a task is the run of the state machine above, between
\* whose Start and Return no other task runs.
NewTask == [pc |-> "created", parsed_docs |-> <<>>, org_boundary |-> NoResult]

\* What parse_files may return for the files of the session: no document, a
\* sheet of two rows with one identifier, or no document that was parsed
ParseOutcomes ==
  { <<>>,
    << document("rows", 1, CALL_COLUMNS,
                << <<ID_x, NAME_a, NaN, REGION_r>>, <<ID_x, NAME_b, NAME_c, NaN>> >>) >>,
    << document("error", 1, CALL_COLUMNS, <<>>), document("skipped", 2, CALL_COLUMNS, <<>>) >> }

\* The values hash() may take in this process on the keys the workflows need
workflow_hash_functions ==
  [UNION { {hash_key(n) : n \in hashed_names(docs)} : docs \in ParseOutcomes } -> 0..(MaxHash - 1)]

\* No task is between two awaits: the event loop may run any task
Yielded ==
  \/ pc = "sleep"
  \/ pc = "done" /\ \A r \in 1..Len(tasks) : tasks[r].pc # "consolidating"

\* state.steps.append({"name": name, "status": "running"})
step_started(steps, name) ==
  [ earlier |-> steps.earlier \cup { steps.last[i] : i \in 1..Len(steps.last) },
    last |-> << [name |-> name, status |-> "running"] >> ]

\* state.steps[-1].update({"status": "complete", ...})
step_completed(steps) == [steps EXCEPT !.last[1].status = "complete"]

\* A new orchestrator process: no session state yet, no consolidate() call made
InitWorkflow ==
  \E h \in workflow_hash_functions :
    /\ parsed_docs = <<>>
    /\ pyhash = h
    /\ pc = "done"
    /\ doc_i = 0
    /\ row_i = 0
    /\ cols = NoRoles
    /\ entities = <<>>
    /\ issues = <<>>
    /\ duplicate_ids = <<>>
    /\ duplicate_names = <<>>
    /\ missing_identifiers = <<>>
    /\ non_iso_countries = <<>>
    /\ unknown_countries = <<>>
    /\ missing_regions = <<>>
    /\ missing_types = <<>>
    /\ entities_list = <<>>
    /\ boundary = <<>>
    /\ hierarchy_edges = <<>>
    /\ result = NoResult
    /\ waiting = <<>>
    /\ returned = <<>>
    /\ session = NoSession
    /\ tasks = <<>>

\* main.py process_session: asyncio.create_task(orchestrator.run_workflow(...))
ProcessSession ==
  /\ Yielded
  /\ Len(tasks) < MaxRuns
  /\ tasks' = Append(tasks, NewTask)
  /\ UNCHANGED << parsed_docs, pyhash, waiting, returned, call_frame, session >>

\* Lines 55-65: the task created first starts first; the session is reset and
\* parse_files is awaited.
BeginWorkflow ==
  /\ Yielded
  /\ \E r \in 1..Len(tasks) :
       /\ tasks[r].pc = "created"
       /\ \A q \in 1..(r - 1) : tasks[q].pc # "created"
       /\ tasks' = [tasks EXCEPT ![r].pc = "parse_files"]
  /\ session' = [ status |-> "running", progress |-> 0,
                  steps |-> step_started(NoSteps, "document_parsing"),
                  results |-> NoResults, errors |-> <<>> ]
  /\ UNCHANGED << parsed_docs, pyhash, waiting, returned, call_frame >>

\* DocumentsParsed with line 81 reading "if not any(...)": an empty list ends
\* the workflow too.
DocumentsParsed_without_empty_check ==
  /\ Yielded
  /\ \E r \in 1..Len(tasks) :
       /\ tasks[r].pc = "parse_files"
       /\ \E docs \in ParseOutcomes :
            IF \A i \in 1..Len(docs) : docs[i].status # "ok"
            THEN /\ session' = [session EXCEPT
                                  !.steps = step_completed(session.steps),
                                  !.status = "error",
                                  !.errors = Append(@, "All uploaded files failed to parse. See step 'document_parsing' for details and hints.")]
                 /\ tasks' = [tasks EXCEPT ![r].pc = "returned", ![r].parsed_docs = docs]
            ELSE /\ session' = [session EXCEPT
                                  !.steps = step_started(step_completed(session.steps),
                                                         "org_boundary_consolidation"),
                                  !.progress = 20]
                 /\ tasks' = [tasks EXCEPT ![r].pc = "consolidate", ![r].parsed_docs = docs]
  /\ UNCHANGED << parsed_docs, pyhash, waiting, returned, call_frame >>

\* Lines 65-100: parse_files returns; without an ok document in a non-empty
\* list the workflow ends in error, otherwise consolidate() is called.
DocumentsParsed ==
  /\ Yielded
  /\ \E r \in 1..Len(tasks) :
       /\ tasks[r].pc = "parse_files"
       /\ \E docs \in ParseOutcomes :
            IF docs # <<>> /\ \A i \in 1..Len(docs) : docs[i].status # "ok"
            THEN /\ session' = [session EXCEPT
                                  !.steps = step_completed(session.steps),
                                  !.status = "error",
                                  !.errors = Append(@, "All uploaded files failed to parse. See step 'document_parsing' for details and hints.")]
                 /\ tasks' = [tasks EXCEPT ![r].pc = "returned", ![r].parsed_docs = docs]
            ELSE /\ session' = [session EXCEPT
                                  !.steps = step_started(step_completed(session.steps),
                                                         "org_boundary_consolidation"),
                                  !.progress = 20]
                 /\ tasks' = [tasks EXCEPT ![r].pc = "consolidate", ![r].parsed_docs = docs]
  /\ UNCHANGED << parsed_docs, pyhash, waiting, returned, call_frame >>

\* Line 100: the consolidate() call of a task is the one the event loop resumes
\* next at line 280 of the agent.
CallConsolidate ==
  /\ pc = "done"
  /\ \A r \in 1..Len(tasks) : tasks[r].pc # "consolidating"
  /\ \E r \in 1..Len(tasks) :
       /\ tasks[r].pc = "consolidate"
       /\ parsed_docs' = tasks[r].parsed_docs
       /\ tasks' = [tasks EXCEPT ![r].pc = "consolidating"]
  /\ pc' = "sleep"
  /\ result' = NoResult
  /\ UNCHANGED << pyhash, waiting, returned, doc_i, row_i, cols, issues, accumulators,
                  entities_list, boundary, hierarchy_edges, session >>

\* Lines 100-111: consolidate() has returned to its task.
Consolidated ==
  /\ pc = "done"
  /\ \E r \in 1..Len(tasks) :
       /\ tasks[r].pc = "consolidating"
       /\ tasks' = [tasks EXCEPT ![r].pc = "entity_extraction", ![r].org_boundary = result]
  /\ session' = [session EXCEPT
                   !.steps = step_started(step_completed(session.steps), "entity_extraction"),
                   !.progress = 45]
  /\ UNCHANGED << parsed_docs, pyhash, waiting, returned, call_frame >>

\* The progress set and the step started after each of the awaits of lines
\* 111, 117 and 123
AFTER_STEP ==
  [ entity_extraction |-> [progress |-> 55, next |-> "carbon_analysis"],
    carbon_analysis   |-> [progress |-> 65, next |-> "pcf_analysis"],
    pcf_analysis      |-> [progress |-> 80, next |-> "nature_analysis"] ]

\* Lines 111-129: one of the three analysis steps has returned.
StepDone ==
  /\ Yielded
  /\ \E r \in 1..Len(tasks) :
       /\ tasks[r].pc \in DOMAIN AFTER_STEP
       /\ session' = [session EXCEPT
                        !.steps = step_started(step_completed(session.steps),
                                               AFTER_STEP[tasks[r].pc].next),
                        !.progress = AFTER_STEP[tasks[r].pc].progress]
       /\ tasks' = [tasks EXCEPT ![r].pc = AFTER_STEP[tasks[r].pc].next]
  /\ UNCHANGED << parsed_docs, pyhash, waiting, returned, call_frame >>

\* Lines 129-141 and 182-194: the nature step has returned and the exports are
\* written without an await; _write_exports creates directories and files, and
\* the exception it may raise is caught at line 182 (the awaited agents only
\* sleep and build dictionaries).
NatureAssessed ==
  /\ Yielded
  /\ \E r \in 1..Len(tasks) :
       /\ tasks[r].pc = "nature_analysis"
       /\ \E exported \in BOOLEAN :
            LET exporting == step_started(step_completed(session.steps), "export_generation")
            IN IF exported
               THEN /\ session' = [session EXCEPT
                                     !.steps = step_started(step_completed(exporting),
                                                            "report_generation"),
                                     !.progress = 96]
                    /\ tasks' = [tasks EXCEPT ![r].pc = "report_generation"]
               ELSE /\ session' = [session EXCEPT
                                     !.steps = exporting,
                                     !.progress = 92,
                                     !.status = "error",
                                     !.errors = Append(@, "str(exc)")]
                    /\ tasks' = [tasks EXCEPT ![r].pc = "returned"]
  /\ UNCHANGED << parsed_docs, pyhash, waiting, returned, call_frame >>

\* The summary of lines 156-162 (the numbers)
results_of(org_boundary) ==
  [ is_none |-> FALSE,
    num_entities |-> Len(org_boundary.entities),
    num_issues |-> Len(org_boundary.issues),
    num_hierarchy_links |-> Len(org_boundary.hierarchy) ]

\* ReportGenerated without line 148: the progress stays at 96.
ReportGenerated_at_96 ==
  /\ Yielded
  /\ \E r \in 1..Len(tasks) :
       /\ tasks[r].pc = "report_generation"
       /\ session' = [session EXCEPT
                        !.steps = step_completed(session.steps),
                        !.progress = 96,
                        !.results = results_of(tasks[r].org_boundary),
                        !.status = "complete"]
       /\ tasks' = [tasks EXCEPT ![r].pc = "returned"]
  /\ UNCHANGED << parsed_docs, pyhash, waiting, returned, call_frame >>

\* Lines 141-181: the report has been generated and the results are stored.
ReportGenerated ==
  /\ Yielded
  /\ \E r \in 1..Len(tasks) :
       /\ tasks[r].pc = "report_generation"
       /\ session' = [session EXCEPT
                        !.steps = step_completed(session.steps),
                        !.progress = 100,
                        !.results = results_of(tasks[r].org_boundary),
                        !.status = "complete"]
       /\ tasks' = [tasks EXCEPT ![r].pc = "returned"]
  /\ UNCHANGED << parsed_docs, pyhash, waiting, returned, call_frame >>

NextWorkflow ==
  \/ Next
  \/ ProcessSession
  \/ BeginWorkflow
  \/ DocumentsParsed
  \/ CallConsolidate
  \/ Consolidated
  \/ StepDone
  \/ NatureAssessed
  \/ ReportGenerated

SpecWorkflow == InitWorkflow /\ [][NextWorkflow]_vars

Init ==
  \/ InitDedup
  \/ InitParent
  \/ InitDocuments
  \/ InitQuality
  \/ InitIssues
  \/ InitCountry
  \/ InitLongSheet
  \/ InitColumns
  \/ InitNames
  \/ InitWorkflow

Spec == Init /\ [][Next]_vars

\* ------------------------------------------------------------------ claims
Done == pc = "done"

\* The issues of the result with the code given
issues_with(code) == SelectSeq(result.issues, LAMBDA issue : issue.code = code)

\* A parent reference that matches no survivor, stated on the result: the
\* parent_id is set and is no survivor's entity_id, or it is unset, the
\* parent_name is set and, trimmed and lower-cased, is no survivor's
\* lower-cased name.
Unresolved(e) ==
  \/ /\ truthy(e.parent_id)
     /\ \A j \in 1..Len(result.entities) : result.entities[j].entity_id # e.parent_id
  \/ /\ ~truthy(e.parent_id)
     /\ truthy(e.parent_name)
     /\ \A j \in 1..Len(result.entities) :
          lower(result.entities[j].name) # lower(strip(e.parent_name))

\* C1: consolidate() returns entities, boundary and hierarchy lists of the same
\* length; at each index the three records carry the same entity_id; every
\* boundary record has in_boundary = TRUE, whether or not the entity's parent
\* reference resolves.
C1_ListsAligned ==
  Done =>
    /\ Len(result.boundary) = Len(result.entities)
    /\ Len(result.hierarchy) = Len(result.entities)
    /\ \A i \in 1..Len(result.entities) :
         /\ result.boundary[i].entity_id = result.entities[i].entity_id
         /\ result.hierarchy[i].entity_id = result.entities[i].entity_id
         /\ result.boundary[i].in_boundary = TRUE

\* C1 witness: a result with an entity whose parent resolves and one whose
\* parent does not.
C1_Witness ==
  /\ Done
  /\ \E i, j \in 1..Len(result.entities) :
       /\ Unresolved(result.entities[i])
       /\ truthy(result.entities[j].parent_id)
       /\ ~Unresolved(result.entities[j])

\* C2: in the entities returned no two entities have entity_id values that are
\* equal after trimming and lower-casing, and every entity_id is non-empty.
C2_UniqueIds ==
  Done =>
    \A i \in 1..Len(result.entities) :
      /\ result.entities[i].entity_id # <<>>
      /\ result.entities[i].entity_id # None
      /\ \A j \in 1..Len(result.entities) :
           i # j => lower(strip(result.entities[i].entity_id))
                    # lower(strip(result.entities[j].entity_id))

\* C2 witness: two rows were extracted whose identifiers differ only in case
\* and surrounding whitespace was trimmed from one of them.
C2_Witness ==
  /\ Done
  /\ \E i, j \in 1..Len(entities) :
       /\ entities[i].entity_id # entities[j].entity_id
       /\ lower(entities[i].entity_id) = lower(entities[j].entity_id)
  /\ Len(result.entities) < Len(entities)

\* Two identifiers with the same deduplication key
same_id(a, b) == lower(strip(a)) = lower(strip(b))

\* Two names that are equal trimmed and case-insensitively
same_name(a, b) == lower(strip(a)) = lower(strip(b))

\* The extracted rows that are the first with their key, in ingestion order
first_seen == {i \in 1..Len(entities) :
                \A j \in 1..(i - 1) : ~same_id(entities[j].entity_id, entities[i].entity_id)}

\* The k-th smallest member of a set of positions
kth(S, k) == CHOOSE i \in S : Cardinality({j \in S : j < i}) = k - 1

ScenarioA ==
  /\ Done
  /\ Len(parsed_docs) = 2
  /\ \A d \in 1..2 : /\ document_usable(parsed_docs[d])
                      /\ Len(parsed_docs[d].dataframe.rows) = 1
  /\ Len(entities) = 2
  /\ entities[1].name = entities[2].name
  /\ ~truthy(entities[1].entity_identifier)
  /\ ~truthy(entities[2].entity_identifier)

\* C4 as stated: in Scenario A exactly one entity with that name survives and
\* no duplicate_entity_id issue is raised.
C4_AsStated ==
  ScenarioA =>
    /\ Len(SelectSeq(result.entities, LAMBDA e : e.name = entities[1].name)) = 1
    /\ issues_with("duplicate_entity_id") = <<>>

\* C4: in Scenario A exactly one entity with that name survives, the first
\* row's, and exactly one duplicate_entity_id issue (a warning) is raised, whose
\* details name the synthesized identifier and the second document's file.
C4_ScenarioA ==
  ScenarioA =>
    /\ result.entities = <<entities[1]>>
    /\ Len(issues_with("duplicate_entity_id")) = 1
    /\ issues_with("duplicate_entity_id")[1].severity = "warning"
    /\ issues_with("duplicate_entity_id")[1].details =
         << <<entities[2].entity_id, {entities[2].source_file}>> >>

\* C4 witness: Scenario A, the two rows from different files.
C4_Witness ==
  /\ ScenarioA
  /\ entities[1].source_file # entities[2].source_file

\* C5: the name pass removes no record: every row that is the first with its
\* identifier key is in the entities returned, also when another survivor has
\* the same name; and exactly one duplicate_entity_name issue, of severity
\* info, is emitted when two survivors share a name (trimmed,
\* case-insensitive), none otherwise.
C5_NamePassKeepsRecords ==
  Done =>
    /\ \A i \in first_seen : entities[i] \in Range(result.entities)
    /\ IF \E i, j \in 1..Len(result.entities) :
            i # j /\ same_name(result.entities[i].name, result.entities[j].name)
       THEN /\ Len(issues_with("duplicate_entity_name")) = 1
            /\ issues_with("duplicate_entity_name")[1].severity = "info"
       ELSE issues_with("duplicate_entity_name") = <<>>

\* C5 witness: two rows with explicit, different identifiers and names that
\* differ only in case were extracted and both are in the entities returned.
C5_Witness ==
  /\ Done
  /\ \E i, j \in 1..Len(result.entities) :
       /\ i # j
       /\ truthy(result.entities[i].entity_identifier)
       /\ truthy(result.entities[j].entity_identifier)
       /\ result.entities[i].name # result.entities[j].name
       /\ same_name(result.entities[i].name, result.entities[j].name)

\* C6: a missing_parent issue is recorded for a survivor exactly when its
\* parent_id is set and equals no survivor's entity_id, or its parent_id is
\* unset, its parent_name is set and, trimmed and lower-cased, equals no
\* survivor's lower-cased name; a survivor without a parent reference never
\* gets one; the entity stays in entities and in boundary either way.
C6_MissingParent ==
  Done =>
    LET reported == issues_with("missing_parent")
        orphans == SelectSeq(result.entities, Unresolved)
    IN /\ Len(reported) = Len(orphans)
       /\ \A k \in 1..Len(reported) :
            /\ reported[k].entity = orphans[k].name
            /\ reported[k].source_file = orphans[k].source_file
            /\ reported[k].source_row = orphans[k].source_row
            /\ reported[k].severity = "warning"
       /\ \A k \in 1..Len(orphans) :
            /\ truthy(orphans[k].parent_id) \/ truthy(orphans[k].parent_name)
            /\ \E i \in 1..Len(result.boundary) :
                 /\ result.boundary[i].entity_id = orphans[k].entity_id
                 /\ result.boundary[i].in_boundary = TRUE

\* C6 witness: a survivor whose parent_id matches nothing although its
\* parent_name names a survivor, and a survivor whose parent_name, written in
\* another case, names a survivor.
C6_Witness ==
  /\ Done
  /\ \E i, j \in 1..Len(result.entities) :
       /\ truthy(result.entities[i].parent_id)
       /\ Unresolved(result.entities[i])
       /\ \E k \in 1..Len(result.entities) :
            same_name(result.entities[k].name, result.entities[i].parent_name)
       /\ ~truthy(result.entities[j].parent_id)
       /\ truthy(result.entities[j].parent_name)
       /\ ~Unresolved(result.entities[j])
       /\ \A k \in 1..Len(result.entities) :
            result.entities[k].name # result.entities[j].parent_name

\* C7: the hierarchy edge of an entity has relationship "root" exactly when the
\* entity has neither a parent_id nor a parent_name and "reports_to" otherwise,
\* resolved or not; the edge carries the entity's parent_id and parent_name
\* unchanged.
C7_EdgeRelationship ==
  Done =>
    \A i \in 1..Len(result.entities) :
      LET e == result.entities[i]
          edge == CHOOSE h \in Range(result.hierarchy) : h.entity_id = e.entity_id
      IN /\ \E h \in Range(result.hierarchy) : h.entity_id = e.entity_id
         /\ edge.relationship =
              IF ~truthy(e.parent_id) /\ ~truthy(e.parent_name) THEN "root" ELSE "reports_to"
         /\ edge.parent_id = e.parent_id
         /\ edge.parent_name = e.parent_name

\* C7 witness: a result with a root and an entity whose reference matches
\* nothing, its edge a reports_to edge that carries the reference.
C7_Witness ==
  /\ Done
  /\ \E i, k \in 1..Len(result.entities) :
       /\ ~truthy(result.entities[i].parent_id) /\ ~truthy(result.entities[i].parent_name)
       /\ result.hierarchy[i].relationship = "root"
       /\ Unresolved(result.entities[k])
       /\ result.hierarchy[k].relationship = "reports_to"
       /\ truthy(result.hierarchy[k].parent_id)

\* A document the claims call unusable: its status is not ok, or it has no
\* rows, or no name column is detected in its header.
unusable(doc) ==
  \/ doc.status # "ok"
  \/ doc.dataframe.is_none
  \/ df_empty(doc.dataframe)
  \/ detect_name_column(doc.dataframe.columns) = 0

\* The code and severity the claims give for an unusable document
document_code(doc) ==
  IF doc.status # "ok" THEN <<"input_unusable", "error">>
  ELSE IF doc.dataframe.is_none \/ df_empty(doc.dataframe) THEN <<"empty_sheet", "warning">>
  ELSE <<"missing_name_column", "error">>

DOCUMENT_CODES == {"input_unusable", "empty_sheet", "missing_name_column"}

\* The entities of the rows of doc from row i on, a row with a name each
RECURSIVE rows_extracted(_, _)
rows_extracted(doc, i) ==
  IF i > Len(doc.dataframe.rows) THEN <<>>
  ELSE LET roles == detect_roles(doc.dataframe.columns)
           row == doc.dataframe.rows[i]
           name == fetch_value(row, roles.name_col)
       IN (IF truthy(name) THEN <<entity_record(doc, roles, row, i - 1, name)>> ELSE <<>>)
          \o rows_extracted(doc, i + 1)

\* The entities of a list of usable documents, in order
RECURSIVE docs_extracted(_)
docs_extracted(docs) ==
  IF docs = <<>> THEN <<>>
  ELSE rows_extracted(Head(docs), 1) \o docs_extracted(Tail(docs))

\* C8: an unusable document does not abort the run. Each unusable document
\* contributes exactly one issue, with the code and severity of its case
\* (input_unusable/error, empty_sheet/warning, missing_name_column/error), and
\* no entity; the entities extracted are those of the input list without the
\* unusable documents.
C8_UnusableDocumentSkipped ==
  Done =>
    LET bad == SelectSeq(parsed_docs, unusable)
        good == SelectSeq(parsed_docs, LAMBDA doc : ~unusable(doc))
        reported == SelectSeq(result.issues, LAMBDA issue : issue.code \in DOCUMENT_CODES)
    IN /\ entities = docs_extracted(good)
       /\ \A i \in 1..Len(entities) :
            \A k \in 1..Len(bad) : entities[i].source_file # basename(bad[k].path)
       /\ Len(reported) = Len(bad)
       /\ \A k \in 1..Len(bad) :
            /\ reported[k].source_file = basename(bad[k].path)
            /\ reported[k].code = document_code(bad[k])[1]
            /\ reported[k].severity = document_code(bad[k])[2]

\* C8 witness: three documents, the second unusable, the first and the third
\* with an entity in the result.
C8_Witness ==
  /\ Done
  /\ Len(parsed_docs) = 3
  /\ unusable(parsed_docs[2])
  /\ \E i, j \in 1..Len(result.entities) :
       /\ result.entities[i].source_file = basename(parsed_docs[1].path)
       /\ result.entities[j].source_file = basename(parsed_docs[3].path)

\* C9 as stated: a document with status "empty" is reported with an empty_sheet
\* issue, and an input_unusable issue is reported only for a document with
\* status "error".
C9_AsStated ==
  Done =>
    \A d \in 1..Len(parsed_docs) :
      /\ parsed_docs[d].status = "empty" =>
           \E issue \in Range(result.issues) :
             /\ issue.code = "empty_sheet"
             /\ issue.source_file = basename(parsed_docs[d].path)
      /\ (\E issue \in Range(result.issues) :
            /\ issue.code = "input_unusable"
            /\ issue.source_file = basename(parsed_docs[d].path))
           => parsed_docs[d].status = "error"

\* The name values the claims list as empty: "", nan, none, n/a, na, n.a, null,
\* -, the dash variants and tbd.
LISTED_SENTINELS ==
  { <<>>, <<"n","a","n">>, <<"n","o","n","e">>, <<"n","/","a">>, <<"n","a">>,
    <<"n",".","a">>, <<"n","u","l","l">>, <<"-">>, <<"EMDASH">>, <<"-","-">>,
    <<"t","b","d">> }

\* A cell that is empty or a listed sentinel, case-insensitively after trimming
skipped_cell(cell) == cell = NaN \/ lower(strip(cell)) \in LISTED_SENTINELS

\* The row the row loop is at, and its name cell
current_row == parsed_docs[doc_i].dataframe.rows[row_i]
current_name_cell == current_row[detect_name_column(parsed_docs[doc_i].dataframe.columns)]

\* The rows of the usable documents whose name cell is not skipped
named_rows ==
  { dr \in (1..Len(parsed_docs)) \X (1..MaxRows + 1) :
      /\ ~unusable(parsed_docs[dr[1]])
      /\ dr[2] <= Len(parsed_docs[dr[1]].dataframe.rows)
      /\ LET df == parsed_docs[dr[1]].dataframe
         IN ~skipped_cell(df.rows[dr[2]][detect_name_column(df.columns)]) }

\* The count of the roster-level issue with the code given, 0 without one
issue_count(code) ==
  IF issues_with(code) = <<>> THEN 0 ELSE issues_with(code)[1].count

names_of(seq) == [j \in 1..Len(seq) |-> seq[j].name]

\* A record whose country could not be mapped / was mapped from a value that
\* is not the code itself
country_unmapped(e) == truthy(e.country_raw) /\ ~truthy(e.country_code)
country_verbose(e) == truthy(e.country_code) /\ upper(e.country_raw) # e.country_code

\* The details of the issue with the code given (none without the issue)
issue_details(code) ==
  IF issues_with(code) = <<>> THEN <<>> ELSE issues_with(code)[1].details

\* The roster-level findings counted over the records of seq
findings_counted_over(seq) ==
  /\ issue_count("missing_entity_identifier")
       = Len(names_of(SelectSeq(seq, LAMBDA e : ~truthy(e.entity_identifier))))
  /\ issue_count("missing_region") = Len(names_of(SelectSeq(seq, LAMBDA e : ~truthy(e.region))))
  /\ issue_count("missing_facility_type")
       = Len(names_of(SelectSeq(seq, LAMBDA e : ~truthy(e.facility_type))))
  /\ issue_count("country_normalization") = Len(names_of(SelectSeq(seq, country_unmapped)))
  /\ issue_count("country_standardization") = Len(names_of(SelectSeq(seq, country_verbose)))

\* C11 as stated: the counts of missing_entity_identifier, missing_region,
\* missing_facility_type, country_normalization and country_standardization are
\* those of the surviving entities, and the names in the details of the region
\* and type issues are names of survivors lacking the field.
C11_AsStated ==
  Done =>
    /\ findings_counted_over(result.entities)
    /\ Range(issue_details("missing_region"))
         \subseteq Range(names_of(SelectSeq(result.entities, LAMBDA e : ~truthy(e.region))))
    /\ Range(issue_details("missing_facility_type"))
         \subseteq Range(names_of(SelectSeq(result.entities, LAMBDA e : ~truthy(e.facility_type))))

\* C11: the five roster-level findings are counted over the extracted rows, in
\* extraction order, before deduplication: a row discarded as a duplicate is
\* counted and named like any other. The details are the first DetailCap
\* findings: names for region and type, (name, row) for the identifier, the
\* distinct raw values for the two country issues.
C11_OverExtractedRows ==
  Done =>
    /\ findings_counted_over(entities)
    /\ issue_details("missing_region")
         = Take(names_of(SelectSeq(entities, LAMBDA e : ~truthy(e.region))), DetailCap)
    /\ issue_details("missing_facility_type")
         = Take(names_of(SelectSeq(entities, LAMBDA e : ~truthy(e.facility_type))), DetailCap)
    /\ LET rows == SelectSeq(entities, LAMBDA e : ~truthy(e.entity_identifier))
       IN issue_details("missing_entity_identifier")
            = Take([j \in 1..Len(rows) |-> <<rows[j].name, rows[j].source_row>>], DetailCap)
    /\ Range(issue_details("country_normalization"))
         \subseteq {entities[i].country_raw : i \in {j \in 1..Len(entities) : country_unmapped(entities[j])}}
    /\ Range(issue_details("country_standardization"))
         \subseteq {entities[i].country_raw : i \in {j \in 1..Len(entities) : country_verbose(entities[j])}}

\* C11 witness: a row without a region and with an unknown country was
\* discarded as a duplicate, every survivor has a region and a mapped country,
\* and the region and country issues are in the result.
C11_Witness ==
  /\ Done
  /\ Len(result.entities) < Len(entities)
  /\ \A i \in 1..Len(result.entities) :
       truthy(result.entities[i].region) /\ ~country_unmapped(result.entities[i])
  /\ issue_count("missing_region") = 1
  /\ issue_count("country_normalization") = 1

\* What case and punctuation variants of one country name share: the letters
\* of the value, lower-cased
country_letters(value) == SelectSeq(lower(value), LAMBDA c : c \in LowerLetters)

\* C12 as stated: two country values that are case or punctuation variants of
\* the same name or abbreviation ('UK', 'uk', 'U.K.'; 'USA', 'U.S.A.') get the
\* same country_code.
C12_AsStated ==
  Done =>
    \A i, j \in 1..Len(entities) :
      (/\ truthy(entities[i].country_raw)
       /\ truthy(entities[j].country_raw)
       /\ country_letters(entities[i].country_raw) = country_letters(entities[j].country_raw))
      => entities[i].country_code = entities[j].country_code

\* The codes of the table normalize to themselves
TABLE_CODES_FIXED ==
  \A name \in DOMAIN COUNTRY_NORMALIZATION_MAP :
    normalize_country(COUNTRY_NORMALIZATION_MAP[name])
      = <<COUNTRY_NORMALIZATION_MAP[name], None>>

\* C13 as stated: normalization is idempotent: the country_code of every
\* extracted row, and every code of the table, normalizes to (itself, None); a
\* value that is two upper-case letters is its own code, with no unmapped
\* value.
C13_AsStated ==
  /\ TABLE_CODES_FIXED
  /\ \A i \in 1..Len(entities) :
       LET raw == entities[i].country_raw
           code == entities[i].country_code
       IN /\ truthy(code) => normalize_country(code) = <<code, None>>
          /\ (truthy(raw) /\ Len(raw) = 2 /\ \A k \in 1..2 : raw[k] \in UpperLetters)
               => normalize_country(raw) = <<raw, None>>

\* A raw value among the details of the issue with the code given, or beyond
\* the DetailCap values the details hold
listed_in(code, raw) ==
  \/ raw \in Range(issue_details(code))
  \/ Len(issue_details(code)) = DetailCap

rerun_entities(h) ==
  [i \in 1..Len(entities) |->
     IF truthy(entities[i].entity_identifier) THEN entities[i]
     ELSE [entities[i] EXCEPT !.entity_id = make_entity_id(h[hash_key(entities[i].name)])]]

\* The survivors of the first pass in a process whose hash is h
rerun_survivors(h) ==
  LET r == dedup_loop(rerun_entities(h), <<>>, <<>>)
  IN [j \in 1..Len(r.deduped) |-> r.deduped[j].entity]

\* C15 as stated: consolidate() is deterministic: a second run on the same input
\* list, in a process with any hash(), returns the same sequence of entity_id
\* values and the same number of entities, and reports duplicate identifiers
\* and duplicate names exactly when this run does, synthesized identifiers
\* included.
C15_AsStated ==
  Done =>
    \A h \in hash_functions(parsed_docs) :
      LET again == rerun_survivors(h)
      IN /\ Len(again) = Len(result.entities)
         /\ \A j \in 1..Len(again) : again[j].entity_id = result.entities[j].entity_id
         /\ (dedup_loop(rerun_entities(h), <<>>, <<>>).duplicate_ids = <<>>)
              <=> (issues_with("duplicate_entity_id") = <<>>)
         /\ (name_loop(again, {}, <<>>) = <<>>)
              <=> (issues_with("duplicate_entity_name") = <<>>)

\* The calls on the agent that have returned, the running one included
calls_returned ==
  returned \o (IF Done THEN << [docs |-> parsed_docs, result |-> result] >> ELSE <<>>)

\* C16: consolidate() calls are independent: whatever calls were made on the
\* agent before a call, and whatever calls are suspended while it runs, two
\* calls with the same input list return the same result; so a call returns
\* what the first call on a new agent returns for its input list.
C16_CallsIndependent ==
  \A i, j \in 1..Len(calls_returned) :
    calls_returned[i].docs = calls_returned[j].docs
      => calls_returned[i].result = calls_returned[j].result

\* C16 witness: a call has returned its result after a call with another input
\* list and while a third call, with another input list again, was suspended at
\* line 280; both results report issues.
C16_Witness ==
  /\ Done
  /\ returned # <<>>
  /\ waiting # <<>>
  /\ returned[1].docs # parsed_docs
  /\ waiting[1] # parsed_docs
  /\ result.issues # <<>>
  /\ returned[1].result.issues # <<>>

AGGREGATE_CODES ==
  { "duplicate_entity_id", "duplicate_entity_name", "missing_entity_identifier",
    "country_normalization", "country_standardization", "missing_region",
    "missing_facility_type" }

\* The group of an issue code: 1 document-level, 2 missing_parent, 3 roster-level
\* aggregate, 0 anything else
issue_group(code) ==
  IF code \in DOCUMENT_CODES THEN 1
  ELSE IF code = "missing_parent" THEN 2
  ELSE IF code \in AGGREGATE_CODES THEN 3
  ELSE 0

\* C17: in the returned issues list every document-level issue comes before
\* every missing_parent issue and every missing_parent issue before every
\* roster-level aggregate issue (there is no issue of another kind), and the
\* document-level issues are those of the reported documents, one each, in
\* document order.
C17_IssueOrder ==
  Done =>
    /\ \A i \in 1..Len(result.issues) : issue_group(result.issues[i].code) # 0
    /\ \A i, j \in 1..Len(result.issues) :
         i < j => issue_group(result.issues[i].code) <= issue_group(result.issues[j].code)
    /\ LET reported == SelectSeq(result.issues, LAMBDA issue : issue_group(issue.code) = 1)
           bad == SelectSeq(parsed_docs, unusable)
       IN /\ Len(reported) = Len(bad)
          /\ \A k \in 1..Len(reported) :
               /\ reported[k].source_file = basename(bad[k].path)
               /\ reported[k].code = document_code(bad[k])[1]

\* C17 witness: issues of the three groups in one result, two of them
\* document-level issues with different codes for two files.
C17_Witness ==
  /\ Done
  /\ \E i, j \in 1..Len(result.issues) :
       /\ i < j
       /\ issue_group(result.issues[i].code) = 1
       /\ issue_group(result.issues[j].code) = 1
       /\ result.issues[i].code # result.issues[j].code
       /\ result.issues[i].source_file # result.issues[j].source_file
  /\ issues_with("missing_parent") # <<>>
  /\ \E i \in 1..Len(result.issues) : issue_group(result.issues[i].code) = 3

\* The conditional recommendations, by the issue code each answers
ADVICE_STABLE_IDS == "Introduce a stable Facility ID/Legal Entity ID column for every record before final boundary sign-off"
ADVICE_RESOLVE_DUPLICATES == "Resolve duplicate identifiers to avoid double counting and misattribution in carbon ledgers"
ADVICE_REVIEW_PARENTS == "Review missing parent links and confirm whether affected entities are standalone or require hierarchy updates"
ADVICE_POPULATE_REGION == "Populate a standard region field (e.g., AMER/EMEA/APAC) for aggregated sustainability reporting"

advised(text) == \E k \in 1..Len(result.recommendations) : result.recommendations[k] = text

\* C18: the recommendations start with the four baseline recommendations in
\* their fixed order; each of the four conditional recommendations is present
\* exactly when an issue with its code is in the issues list, and nothing else
\* is recommended.
C18_Recommendations ==
  Done =>
    /\ Len(result.recommendations) >= 4
    /\ SubSeq(result.recommendations, 1, 4)
         = << "Provide ownership percentages and control type (financial vs operational) per entity",
              "Confirm reporting currency, consolidation method, and excluded entities with rationale",
              "Publish ISO-2 country codes alongside descriptive labels to unblock downstream analytics",
              "Upload latest legal entity register and org charts to improve hierarchical accuracy" >>
    /\ advised(ADVICE_STABLE_IDS) <=> issues_with("missing_entity_identifier") # <<>>
    /\ advised(ADVICE_RESOLVE_DUPLICATES) <=> issues_with("duplicate_entity_id") # <<>>
    /\ advised(ADVICE_REVIEW_PARENTS) <=> issues_with("missing_parent") # <<>>
    /\ advised(ADVICE_POPULATE_REGION) <=> issues_with("missing_region") # <<>>
    /\ Len(result.recommendations)
         = 4 + Cardinality({code \in {"missing_entity_identifier", "duplicate_entity_id",
                                      "missing_parent", "missing_region"} :
                              issues_with(code) # <<>>})

\* C18 witness: a result with duplicate identifiers and without repeated names
\* among the survivors, with a missing parent and with an identifier in every
\* row.
C18_Witness ==
  /\ Done
  /\ issues_with("duplicate_entity_id") # <<>>
  /\ issues_with("duplicate_entity_name") = <<>>
  /\ issues_with("missing_parent") # <<>>
  /\ issues_with("missing_entity_identifier") = <<>>
  /\ advised(ADVICE_RESOLVE_DUPLICATES)
  /\ ~advised(ADVICE_STABLE_IDS)

NO_ENTITIES_SENTENCE == "No entities could be consolidated from the supplied documents."

\* C19: Scenario E: an empty input list yields empty entities, boundary,
\* hierarchy and issues lists and the narrative that no entities could be
\* consolidated. In general the narrative is that sentence exactly when entities
\* is empty; otherwise it states a number of unique entities equal to
\* len(entities) and numbers of errors, warnings and informational notes that
\* sum to len(issues).
C19_Narrative ==
  Done =>
    /\ parsed_docs = <<>> =>
         /\ result.entities = <<>>
         /\ result.boundary = <<>>
         /\ result.hierarchy = <<>>
         /\ result.issues = <<>>
         /\ result.narrative.text = NO_ENTITIES_SENTENCE
    /\ result.narrative.text = NO_ENTITIES_SENTENCE <=> result.entities = <<>>
    /\ result.entities # <<>> =>
         /\ result.narrative.entities = Len(result.entities)
         /\ result.narrative.errors + result.narrative.warnings + result.narrative.infos
              = Len(result.issues)

\* C19 witness: a result with entities whose narrative counts an error, a
\* warning and an informational note.
C19_Witness ==
  /\ Done
  /\ result.entities # <<>>
  /\ result.narrative.errors > 0
  /\ result.narrative.warnings > 0
  /\ result.narrative.infos > 0

\* The extracted rows that are discarded as duplicates, and among them the
\* first with each identifier as written
discarded == (1..Len(entities)) \ first_seen
discarded_first ==
  {i \in discarded :
     \A j \in discarded : j < i => entities[j].entity_id # entities[i].entity_id}

\* The first n members of a sequence
first_of(seq, n) == [k \in 1..(IF Len(seq) < n THEN Len(seq) ELSE n) |-> seq[k]]

\* C20: whatever the number of rows, every issue's details hold at most 8
\* entries, at most 5 for duplicate_entity_id and duplicate_entity_name and
\* exactly 1 for missing_parent, and the entries kept are the first in
\* discovery order: the first identifiers found repeated, the first rows found
\* without region and without facility type.
C20_DetailsCapped ==
  Done =>
    /\ \A i \in 1..Len(result.issues) :
         LET issue == result.issues[i]
         IN IF issue.code \in {"duplicate_entity_id", "duplicate_entity_name"}
              THEN Len(issue.details) <= 5
            ELSE IF issue.code = "missing_parent" THEN Len(issue.details) = 1
            ELSE Len(issue.details) <= 8
    /\ LET shown == issue_details("duplicate_entity_id")
       IN /\ Len(shown) = (IF Cardinality(discarded_first) < 5
                           THEN Cardinality(discarded_first) ELSE 5)
          /\ \A k \in 1..Len(shown) : shown[k][1] = entities[kth(discarded_first, k)].entity_id
    /\ issue_details("missing_region")
         = first_of(names_of(SelectSeq(entities, LAMBDA e : ~truthy(e.region))), 8)
    /\ issue_details("missing_facility_type")
         = first_of(names_of(SelectSeq(entities, LAMBDA e : ~truthy(e.facility_type))), 8)

\* C20 witness: a sheet with more than 5 identifiers found repeated and more
\* than 8 rows without facility type, and a missing parent.
C20_Witness ==
  /\ Done
  /\ Cardinality(discarded_first) > 5
  /\ Len(SelectSeq(entities, LAMBDA e : ~truthy(e.facility_type))) > 8
  /\ Len(issue_details("duplicate_entity_id")) = 5
  /\ Len(issue_details("missing_facility_type")) = 8
  /\ issues_with("missing_parent") # <<>>

\* The row of the input an extracted record came from, and its identifier cell
row_of(e) ==
  LET d == CHOOSE i \in 1..Len(parsed_docs) : basename(parsed_docs[i].path) = e.source_file
  IN parsed_docs[d].dataframe.rows[e.source_row - 1]

\* A synthesized identifier: ent- and ten decimal digits
synthesized(id) ==
  /\ Len(id) = 14
  /\ SubSeq(id, 1, 4) = <<"e","n","t","-">>
  /\ \A k \in 5..14 : id[k] \in DigitChars

\* C21: for every entity produced (extracted, and so every survivor): if its row
\* has an explicit identifier, entity_identifier and entity_id are that
\* identifier (trimmed) and confidence is 0.92; otherwise entity_identifier is
\* None, entity_id is a synthesized ent- id, confidence is 0.85 and the row is
\* counted for missing_entity_identifier; is_user_verified is false either way.
C21_IdentifierAndConfidence ==
  Done =>
    /\ \A i \in 1..Len(entities) :
         LET e == entities[i]
             cell == row_of(e)[1]
         IN /\ e.is_user_verified = FALSE
            /\ IF ~skipped_cell(cell)
               THEN /\ e.entity_identifier = strip(cell)
                    /\ e.entity_id = strip(cell)
                    /\ e.confidence = 92
               ELSE /\ e.entity_identifier = None
                    /\ synthesized(e.entity_id)
                    /\ e.confidence = 85
    /\ Range(result.entities) \subseteq Range(entities)
    /\ issue_count("missing_entity_identifier")
         = Cardinality({i \in 1..Len(entities) : skipped_cell(row_of(entities[i])[1])})

\* C21 witness: a result with an entity that has an explicit identifier and one
\* whose identifier is synthesized.
C21_Witness ==
  /\ Done
  /\ \E i, j \in 1..Len(result.entities) :
       /\ result.entities[i].confidence = 92
       /\ result.entities[j].confidence = 85
       /\ synthesized(result.entities[j].entity_id)

\* The document an extracted record came from, and the cell of its row under
\* the column with the header given
doc_of(e) ==
  parsed_docs[CHOOSE i \in 1..Len(parsed_docs) : basename(parsed_docs[i].path) = e.source_file]

cell_under(e, header) ==
  LET columns == doc_of(e).dataframe.columns
  IN row_of(e)[CHOOSE k \in 1..Len(columns) : columns[k] = header]

\* C22 as stated: in a sheet with an identifier column and a parent identifier
\* column, every entity's entity_id is the cell of the identifier column and its
\* parent_id the cell of the parent identifier column, whatever the order of the
\* two columns in the header.
C22_AsStated ==
  Done =>
    \A i \in 1..Len(entities) :
      LET e == entities[i]
      IN /\ e.entity_id = strip(cell_under(e, H_ID))
         /\ e.parent_id = (IF skipped_cell(cell_under(e, H_PARENT_ID)) THEN None
                           ELSE strip(cell_under(e, H_PARENT_ID)))

\* C23 as stated: whenever the input list is not empty and no document
\* contributes an entity, the result has no entity and at least one issue of
\* severity error.
C23_AsStated ==
  (Done /\ parsed_docs # <<>> /\ entities = <<>>) =>
    /\ result.entities = <<>>
    /\ \E i \in 1..Len(result.issues) : result.issues[i].severity = "error"

\* The survivors that the parent reference of survivor i names: those with the
\* entity_id of its parent_id or, without a parent_id, those with the name of
\* its parent_name
resolved_parents(i) ==
  LET e == result.entities[i]
  IN IF truthy(e.parent_id)
       THEN {j \in 1..Len(result.entities) : result.entities[j].entity_id = e.parent_id}
     ELSE IF truthy(e.parent_name)
       THEN {j \in 1..Len(result.entities) :
               lower(strip(result.entities[j].name)) = lower(strip(e.parent_name))}
     ELSE {}

\* The survivors reached from those of S in 1 to k steps along resolved parent
\* references
RECURSIVE ancestors(_, _)
ancestors(S, k) ==
  IF k = 0 THEN {}
  ELSE LET up == UNION {resolved_parents(i) : i \in S}
       IN up \cup ancestors(up, k - 1)

\* A missing_parent issue is recorded for survivor i
warned(i) ==
  \E k \in 1..Len(result.issues) :
    /\ result.issues[k].code = "missing_parent"
    /\ result.issues[k].entity = result.entities[i].name
    /\ result.issues[k].source_file = result.entities[i].source_file
    /\ result.issues[k].source_row = result.entities[i].source_row

\* C25 as stated: the hierarchy is a forest: following resolved parent
\* references from any entity never comes back to it, no entity is its own
\* ancestor.
C25_AsStated ==
  Done => \A i \in 1..Len(result.entities) : i \notin ancestors({i}, Len(result.entities))

\* C26 as stated: an entity whose parent reference matches itself and no other
\* entity is treated as unresolved and receives a missing_parent warning.
C26_AsStated ==
  Done => \A i \in 1..Len(result.entities) : resolved_parents(i) = {i} => warned(i)

\* C28 as stated: a parent_id that equals a surviving entity's entity_id after
\* trimming and lower-casing is resolved: the entity gets no missing_parent
\* warning.
C28_AsStated ==
  Done =>
    \A i \in 1..Len(result.entities) :
      (/\ truthy(result.entities[i].parent_id)
       /\ \E j \in 1..Len(result.entities) :
            same_id(result.entities[j].entity_id, result.entities[i].parent_id))
        => ~warned(i)

\* C27 as stated, in a process whose hash() sends different keys to different
\* values: among the rows without identifier, rows with the same name get the
\* same synthesized entity_id, rows whose names differ after trimming and
\* lower-casing get different ones, and every row discarded by deduplication
\* has the name of the survivor that replaced it.
C27_AsStated ==
  (Done /\ \A k1, k2 \in DOMAIN pyhash : k1 # k2 => pyhash[k1] # pyhash[k2]) =>
    /\ \A i, j \in 1..Len(entities) :
         (~truthy(entities[i].entity_identifier) /\ ~truthy(entities[j].entity_identifier)) =>
           /\ entities[i].name = entities[j].name => entities[i].entity_id = entities[j].entity_id
           /\ ~same_name(entities[i].name, entities[j].name)
                => entities[i].entity_id # entities[j].entity_id
    /\ \A i \in discarded :
         \E j \in first_seen :
           /\ same_id(entities[j].entity_id, entities[i].entity_id)
           /\ same_name(entities[j].name, entities[i].name)

\* ------------------------------------------------------------ run_workflow
\* The only run_workflow call made on the session has returned
single_run_returned == Len(tasks) = 1 /\ tasks[1].pc = "returned"

\* parse_files returned a non-empty list without an ok document
none_ok(docs) == docs # <<>> /\ \A i \in 1..Len(docs) : docs[i].status # "ok"

\* The names of the steps started so far
started_steps ==
  { st.name : st \in session.steps.earlier \cup { session.steps.last[i] : i \in 1..Len(session.steps.last) } }

\* C30: when parsing returns a non-empty list without an ok document, the only
\* run_workflow call stops after document_parsing: consolidate() is not called
\* and no later step is started, the status is 'error' with one error message,
\* the results are null and the progress is 0; when a document is ok or the
\* list is empty, the consolidation step is started.
C30_StopsWithoutOkDocument ==
  /\ (single_run_returned /\ none_ok(tasks[1].parsed_docs))
       => /\ started_steps = {"document_parsing"}
          /\ tasks[1].org_boundary = NoResult
          /\ session.status = "error"
          /\ Len(session.errors) = 1
          /\ session.results.is_none
          /\ session.progress = 0
  /\ (Len(tasks) = 1 /\ tasks[1].pc \notin {"created", "parse_files"}
                     /\ ~none_ok(tasks[1].parsed_docs))
       => "org_boundary_consolidation" \in started_steps

C30_Witness ==
  /\ single_run_returned
  /\ none_ok(tasks[1].parsed_docs)
  /\ session.status = "error"

\* C24: when the only run_workflow call on a session has returned, the status
\* is 'complete' or 'error'; it is 'complete' exactly when the results are
\* non-null and the progress is 100, and then num_entities and
\* num_hierarchy_links both equal the number of entities consolidate() returned.
C24_ReturnedWorkflow ==
  single_run_returned
    => /\ session.status \in {"complete", "error"}
       /\ session.status = "complete"
            <=> (~session.results.is_none /\ session.progress = 100)
       /\ session.status = "complete"
            => /\ session.results.num_entities = Len(tasks[1].org_boundary.entities)
               /\ session.results.num_hierarchy_links = Len(tasks[1].org_boundary.entities)

C24_Witness ==
  /\ single_run_returned
  /\ session.status = "complete"
  /\ session.results.num_entities > 0
  /\ session.results.num_hierarchy_links = session.results.num_entities

\* C29: as stated, for any interleaving of run_workflow calls on one session a
\* session whose status is 'complete' has non-null results and progress 100.
C29_AsStated ==
  session.status = "complete" => (~session.results.is_none /\ session.progress = 100)

====
